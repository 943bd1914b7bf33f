-------------------------- MODULE SyncServerProofs --------------------------
(***************************************************************************)
(* Proofs about the synchronous TCP server, for any number of threads,     *)
(* peers and bytes and any mix of faults.                                  *)
(***************************************************************************)
EXTENDS SyncServer, SequenceTheorems, FiniteSetTheorems, WellFoundedInduction, TLAPS

FrameSet == [type : {"SYN"}, peer : Peers, timely : BOOLEAN]
              \cup [type : {"DATA"}, peer : Peers, byte : {"x", "."}]
              \cup [type : {"RST"}, peer : Peers]

-----------------------------------------------------------------------------
(* Which SYN can make the server wait for its own lock. *)

NoneTimely == \A k \in 1 .. Len(frames) : frames[k].type = "SYN" => ~frames[k].timely

(* The server is going to take the frames before it locks POLL_EPS. *)
Due == \/ pc = "sweep" /\ (ntfn \/ polling = "irq")
       \/ pc = "ntfn" /\ ntfn
       \/ pc = "lock" /\ polling = "irq"

(* A SYN that came in time is announced or being polled for, so the test   *)
(* of the notification before POLL_EPS is locked leaves none behind.       *)
LockInv ==
    /\ frames \in Seq(FrameSet)
    /\ pc = "ntfn" => polling = "no"
    /\ NoneTimely \/ Due

(* What the steps that do not touch the device's frames preserve. *)
LEMMA QuietStep ==
  ASSUME LockInv, frames' = frames, Due => Due' \/ frames = <<>>,
         pc' = "ntfn" => polling' = "no"
  PROVE  LockInv'
  <1>1. frames = <<>> => NoneTimely
    BY DEF NoneTimely
  <1>2. NoneTimely' = NoneTimely
    BY DEF NoneTimely
  <1> QED
    BY <1>1, <1>2 DEF LockInv

(* Taking a frame: the poll goes on, or the server spins. *)
LEMMA FrameStep ==
  ASSUME LockInv, NEW type, PollFrame(type), pc' = pc \/ (pc' = "spin" /\ Held)
  PROVE  LockInv'
  <1>1. /\ frames # <<>> /\ frames \in Seq(FrameSet) /\ frames' = Tail(frames)
        /\ polling' = polling /\ ntfn' = ntfn /\ polling # "no"
    BY DEF PollFrame, LockInv
  <1>2. /\ frames' \in Seq(FrameSet)
        /\ Len(frames') = Len(frames) - 1
        /\ \A k \in 1 .. Len(frames') : frames'[k] = frames[k + 1]
    BY <1>1, HeadTailProperties
  <1>3. NoneTimely => NoneTimely'
    BY <1>1, <1>2, LenProperties DEF NoneTimely
  <1>4. Due => Due'
    BY <1>1 DEF Due, Held
  <1> QED
    BY <1>1, <1>2, <1>3, <1>4 DEF LockInv

(* A frame comes in; a SYN says whether it came in time. *)
LEMMA ArriveStep ==
  ASSUME LockInv, NEW f \in FrameSet, Arrive(f), f.type = "SYN" => f.timely = Timely
  PROVE  LockInv'
  <1>1. /\ frames \in Seq(FrameSet) /\ frames' = Append(frames, f)
        /\ ntfn' = (ntfn \/ polling \notin {"irq", "ack"}) /\ polling' = polling /\ pc' = pc
    BY DEF Arrive, LockInv, server
  <1>2. /\ frames' \in Seq(FrameSet)
        /\ Len(frames') = Len(frames) + 1
        /\ \A k \in 1 .. Len(frames) : frames'[k] = frames[k]
        /\ frames'[Len(frames) + 1] = f
    BY <1>1, AppendProperties
  <1>3. NoneTimely /\ (f.type = "SYN" => ~f.timely) => NoneTimely'
    BY <1>1, <1>2, LenProperties DEF NoneTimely
  <1>4. Timely => Due'
    BY <1>1 DEF Timely, Due, LockInv
  <1>5. Due => Due'
    BY <1>1 DEF Due
  <1> QED
    BY <1>1, <1>2, <1>3, <1>4, <1>5 DEF LockInv

(* A SYN is taken: the server spins only if it holds POLL_EPS, and then    *)
(* none of the SYNs in the device came in time.                            *)
LEMMA PollSynStep ==
  ASSUME LockInv, PollSyn
  PROVE  LockInv' /\ (pc' = "spin" => ~Head(frames).timely)
  <1>1. PollFrame("SYN")
    BY DEF PollSyn
  <1>2. frames # <<>> /\ frames \in Seq(FrameSet) /\ Head(frames).type = "SYN" /\ pc # "spin"
    BY <1>1 DEF PollFrame, LockInv
  <1>3. Len(frames) \in Nat /\ Len(frames) > 0 /\ Head(frames) = frames[1]
    BY <1>2, LenProperties, EmptySeq
  <1>4. pc' = pc \/ (pc' = "spin" /\ Held)
    BY DEF PollSyn, IncomingSyn
  <1>5. Held => NoneTimely
    BY DEF LockInv, Due, Held
  <1>6. NoneTimely => ~Head(frames).timely
    BY <1>2, <1>3 DEF NoneTimely
  <1> QED
    BY <1>1, <1>2, <1>4, <1>5, <1>6, FrameStep

(* nb_recv, with the loop going on to label. *)
LEMMA NbRecvStep ==
  ASSUME LockInv, NEW c, NbRecv(c), polling = "no", pc' = pc, pc \in {"sweep", "polls"}
  PROVE  LockInv'
  <1>1. CASE ntfn
    <2>1. frames' = frames /\ polling' = "irq"
      BY <1>1 DEF NbRecv, NetInterrupt, stack
    <2> QED
      BY <2>1, QuietStep DEF Due
  <1>2. CASE ~ntfn
    <2>1. frames' = frames /\ ~Due
      BY <1>2 DEF NbRecv, ReqListen, ReqRecv, ReqSend, stack, Due
    <2> QED
      BY <2>1, QuietStep
  <1> QED
    BY <1>1, <1>2

LEMMA LockServer ==
  ASSUME LockInv, ServerThread
  PROVE  LockInv' /\ (pc # "spin" /\ pc' = "spin" => ~Head(frames).timely)
  <1>1. CASE Sweep
    <2>1. pc' = "sweep" /\ pc = "sweep"
      BY <1>1 DEF Sweep, Go, GoOn
    <2> QED
      BY <1>1, <2>1, NbRecvStep DEF Sweep, Go
  <1>2. CASE SweepEnd
    <2>1. /\ frames' = frames /\ ntfn' = ntfn /\ polling' = polling /\ pc' \in {"ntfn", "sweep"}
          /\ polling = "no" /\ pc = "sweep"
      BY <1>2 DEF SweepEnd, stack, Go, GoOn
    <2> QED
      BY <2>1, QuietStep DEF Due
  <1>3. CASE PollNtfn
    <2>1. frames' = frames /\ pc' = "lock" /\ polling = "no" /\ pc = "ntfn"
      BY <1>3 DEF PollNtfn, NetInterrupt, stack, Go, GoOn
    <2>2. ntfn => polling' = "irq"
      BY <1>3 DEF PollNtfn, NetInterrupt, Go
    <2> QED
      BY <2>1, <2>2, QuietStep DEF Due
  <1>4. CASE LockEps
    <2>1. frames' = frames /\ pc' = "polls" /\ pc = "lock" /\ polling = "no"
      BY <1>4 DEF LockEps, stack, Go, GoOn
    <2> QED
      BY <2>1, QuietStep DEF Due
  <1>5. CASE PollEps
    <2>1. pc' = "polls" /\ pc = "polls"
      BY <1>5 DEF PollEps, Go, GoOn
    <2> QED
      BY <1>5, <2>1, NbRecvStep DEF PollEps, Go
  <1>6. CASE PollEpsEnd \/ BlockedTask
    <2>1. frames' = frames /\ pc' = "tasks" /\ pc \in {"polls", "tasks"}
      BY <1>6 DEF PollEpsEnd, BlockedTask, stack, Go, GoOn
    <2> QED
      BY <2>1, QuietStep DEF Due
  <1>8. CASE TasksEnd
    <2>1. frames' = frames /\ polling' = "no" /\ pc' = "ntfn" /\ pc = "tasks"
      BY <1>8 DEF TasksEnd, stack, Go, GoOn
    <2> QED
      BY <2>1, QuietStep DEF Due
  <1>9. CASE Reply \/ Spin
    <2>1. frames' = frames /\ ntfn' = ntfn /\ polling' = polling /\ pc' = pc
      BY <1>9 DEF Reply, Spin, stack, server
    <2> QED
      BY <2>1, QuietStep DEF Due, LockInv
  <1>10. CASE PollSyn
    BY <1>10, PollSynStep
  <1>11. CASE PollData \/ PollReset
    <2>1. pc' = pc /\ (PollFrame("DATA") \/ PollFrame("RST"))
      BY <1>11 DEF PollData, PollReset
    <2> QED
      BY <2>1, FrameStep
  <1>12. CASE PollEnd
    <2>1. frames' = frames /\ frames = <<>> /\ pc' = pc /\ pc # "spin" /\ polling # "no"
      BY <1>12 DEF PollEnd, stack
    <2> QED
      BY <2>1, QuietStep DEF LockInv
  <1>13. CASE IrqAck
    <2>1. frames' = frames /\ pc' = pc /\ polling' = "no" /\ ntfn' = ntfn /\ polling = "ack"
      BY <1>13 DEF IrqAck, stack
    <2> QED
      BY <2>1, QuietStep DEF Due
  <1> QED
    BY <1>1, <1>2, <1>3, <1>4, <1>5, <1>6, <1>8, <1>9, <1>10, <1>11, <1>12, <1>13
    DEF ServerThread

LEMMA LockNetwork ==
  ASSUME LockInv, NEW p \in Peers, Network(p)
  PROVE  LockInv' /\ pc' = pc
  <1>0. Timely \in BOOLEAN
    BY DEF Timely
  <1>1. CASE PeerConnect(p) \/ PeerRetransmit(p)
    <2>1. Syn(p) \in FrameSet /\ Syn(p).timely = Timely
      BY <1>0 DEF FrameSet, Syn
    <2>2. Arrive(Syn(p))
      BY <1>1 DEF PeerConnect, PeerRetransmit
    <2> QED
      BY <2>1, <2>2, ArriveStep DEF Arrive, server
  <1>3. CASE PeerData(p)
    <2> DEFINE f == [type |-> "DATA", peer |-> p,
                     byte |-> IF peer[p].sent + 1 = MaxData THEN "." ELSE "x"]
    <2>1. f \in FrameSet /\ f.type # "SYN"
      BY DEF FrameSet
    <2>2. Arrive(f)
      BY <1>3 DEF PeerData
    <2> QED
      BY <2>1, <2>2, ArriveStep DEF Arrive, server
  <1>4. CASE PeerReset(p)
    <2> DEFINE f == [type |-> "RST", peer |-> p]
    <2>1. f \in FrameSet /\ f.type # "SYN"
      BY DEF FrameSet
    <2>2. Arrive(f)
      BY <1>4 DEF PeerReset
    <2> QED
      BY <2>1, <2>2, ArriveStep DEF Arrive, server
  <1> QED
    BY <1>1, <1>3, <1>4 DEF Network

LEMMA LockNext ==
  ASSUME LockInv, [Next]_vars
  PROVE  LockInv' /\ (pc # "spin" /\ pc' = "spin" => ~Head(frames).timely)
  <1>1. CASE ClientThreads
    <2>1. frames' = frames /\ ntfn' = ntfn /\ polling' = polling /\ pc' = pc
      BY <1>1 DEF ClientThreads, ClientSend, ClientRecv, stack, server
    <2> QED
      BY <2>1, QuietStep DEF Due, LockInv
  <1>2. CASE UNCHANGED vars
    <2>1. frames' = frames /\ ntfn' = ntfn /\ polling' = polling /\ pc' = pc
      BY <1>2 DEF vars, stack, server
    <2> QED
      BY <2>1, QuietStep DEF Due, LockInv
  <1> QED
    BY <1>1, <1>2, LockServer, LockNetwork DEF Next

(* POLL_EPS is a spin lock the server takes with requests in hand; a SYN   *)
(* polled while it is held locks it again, and the server stays there      *)
(* (listen_table.rs).  SYNs come at any time.  The one that does this came *)
(* after the server's ntfn.poll(), or between a poll and its               *)
(* acknowledgement: a SYN that was there when the server looked never does.*)
THEOREM SelfDeadlockIsLate == Spec => SelfDeadlockOnlyLate
  <1>1. Init => LockInv
    BY EmptySeq DEF Init, LockInv, NoneTimely
  <1>2. LockInv /\ [Next]_vars
            => LockInv' /\ [pc # "spin" /\ pc' = "spin" => ~Head(frames).timely]_vars
    BY LockNext
  <1> QED
    BY <1>1, <1>2, PTL DEF Spec, SelfDeadlockOnlyLate

-----------------------------------------------------------------------------
(* No thread is left calling on an endpoint the server no longer polls.    *)

Ops == {"Listen", "Recv", "Send", "Bye"}

RecOk(s) == /\ s = [st |-> s.st, op |-> s.op, fd |-> s.fd, data |-> s.data, seen |-> s.seen]
            /\ s.op \in Ops

ClOk == /\ cl = [c \in Threads |-> cl[c]]
        /\ \A c \in Threads : RecOk(cl[c])

Polled(c) == \E k \in 1 .. Len(poll_eps) : poll_eps[k] = c

(* A thread the second loop will hear of: polled, or its Listen is with    *)
(* the server.                                                             *)
Placed(c) == Polled(c) \/ (cl[c].op = "Listen" /\ cl[c].st \in {"sent", "recv"})

TablesOk ==
    /\ poll_eps \in Seq(Threads)
    /\ \E S : waiting \in Seq([handle : S, thread : Threads])
    /\ blocked \in Seq([thread : Threads, complete : BOOLEAN])
    /\ \A k \in 1 .. Len(blocked) : cl[blocked[k].thread].op # "Listen"
    /\ hand # NoOne => hand \in Threads /\ cl[hand].op # "Listen"
    /\ idx \in Nat \ {0}
    /\ listen_cnt \in Nat

(* listen_cnt reaches ThreadNum only if every thread of this sweep had a   *)
(* request, so all are placed when the first loop ends.                    *)
SweepInv ==
    /\ pc # "spin" => \A c \in Threads : cl[c].op # "Listen" => Polled(c)
    /\ pc \in {"ntfn", "lock", "polls", "tasks"} => \A c \in Threads : Placed(c)
    /\ pc = "sweep" =>
          /\ idx <= ThreadNum + 1
          /\ listen_cnt < idx
          /\ listen_cnt + 1 = idx => \A c \in Threads : c < idx => Placed(c)

OrphanInv == ClOk /\ TablesOk /\ SweepInv

(* What every step does to the threads: once past Listen for ever past it, *)
(* and a placed thread stays placed.                                       *)
ThreadStep ==
    /\ ClOk'
    /\ poll_eps' \in Seq(Threads)
    /\ \A c \in Threads : cl[c].op # "Listen" => cl'[c].op # "Listen"
    /\ pc' # "spin" =>
          /\ \A c \in Threads : Placed(c) => Placed(c)'
          /\ \A c \in Threads : Polled(c) => Polled(c)'
          /\ \A c \in Threads : cl[c].op = "Listen" /\ cl'[c].op # "Listen" => Polled(c)'

LEMMA ContinueOk ==
  ASSUME NEW s, RecOk(s)
  PROVE  RecOk(Continue(s)) /\ Continue(s).op # "Listen"
  <1> DEFINE st == s.st
             op == s.op
             fd == s.fd
             data == s.data
             seen == s.seen
  <1>1. s = [st |-> st, op |-> op, fd |-> fd, data |-> data, seen |-> seen] /\ op \in Ops
    BY DEF RecOk
  <1> HIDE DEF st, op, fd, data, seen
  <1> QED
    BY <1>1 DEF RecOk, Ops, Continue

(* The other updates of a thread's record leave its call alone. *)
LEMMA RecUpdate ==
  ASSUME NEW s, RecOk(s), NEW v, NEW w
  PROVE  /\ RecOk([s EXCEPT !.st = v]) /\ [s EXCEPT !.st = v].op = s.op
         /\ RecOk([s EXCEPT !.data = w]) /\ [s EXCEPT !.data = w].op = s.op
         /\ RecOk([s EXCEPT !.fd = w]) /\ [s EXCEPT !.fd = w].op = s.op
         /\ [s EXCEPT !.st = v].st = v /\ [s EXCEPT !.data = w].st = s.st
  <1> DEFINE st == s.st
             op == s.op
             fd == s.fd
             data == s.data
             seen == s.seen
  <1>1. s = [st |-> st, op |-> op, fd |-> fd, data |-> data, seen |-> seen] /\ op \in Ops
    BY DEF RecOk
  <1> HIDE DEF st, op, fd, data, seen
  <1>2. RecOk([s EXCEPT !.st = v]) /\ [s EXCEPT !.st = v].op = s.op /\ [s EXCEPT !.st = v].st = v
    BY <1>1 DEF RecOk
  <1>3. RecOk([s EXCEPT !.data = w]) /\ [s EXCEPT !.data = w].op = s.op
        /\ [s EXCEPT !.data = w].st = s.st
    BY <1>1 DEF RecOk
  <1>4. RecOk([s EXCEPT !.fd = w]) /\ [s EXCEPT !.fd = w].op = s.op
    BY <1>1 DEF RecOk
  <1> QED
    BY <1>2, <1>3, <1>4

LEMMA RecUpdate2 ==
  ASSUME NEW s, RecOk(s), NEW v, NEW w
  PROVE  RecOk([s EXCEPT !.st = v, !.data = w]) /\ [s EXCEPT !.st = v, !.data = w].op = s.op
  <1> DEFINE q == [s EXCEPT !.st = v]
  <1>1. [s EXCEPT !.st = v, !.data = w] = [q EXCEPT !.data = w]
    BY DEF RecOk
  <1>2. RecOk(q) /\ q.op = s.op
    BY RecUpdate
  <1> HIDE DEF q
  <1>3. RecOk([q EXCEPT !.data = w]) /\ [q EXCEPT !.data = w].op = q.op
    BY <1>2, RecUpdate
  <1> QED
    BY <1>1, <1>2, <1>3

(* One thread's record changes, the endpoints polled do not. *)
LEMMA OneThread ==
  ASSUME ClOk, TablesOk, NEW c \in Threads, NEW r, RecOk(r),
         cl' = [cl EXCEPT ![c] = r], poll_eps' = poll_eps,
         cl[c].op = "Listen" => r.op = "Listen",
         cl[c].op # "Listen" => r.op # "Listen",
         r.op = "Listen" /\ cl[c].st \in {"sent", "recv"} => r.st \in {"sent", "recv"}
  PROVE  ThreadStep
  <1>1. /\ cl' = [x \in Threads |-> cl'[x]]
        /\ cl'[c] = r
        /\ \A x \in Threads : x # c => cl'[x] = cl[x]
    BY DEF ClOk
  <1>2. ClOk'
    BY <1>1 DEF ClOk
  <1>3. \A x : Polled(x)' = Polled(x)
    BY DEF Polled
  <1>4. poll_eps' \in Seq(Threads)
    BY DEF TablesOk
  <1> QED
    BY <1>1, <1>2, <1>3, <1>4 DEF ThreadStep, Placed

LEMMA NoThread ==
  ASSUME ClOk, TablesOk, cl' = cl, poll_eps' = poll_eps
  PROVE  ThreadStep
  BY DEF ThreadStep, ClOk, Placed, Polled, TablesOk

(* SweepInv is kept by a step that leaves the loops where they are. *)
LEMMA SameLoop ==
  ASSUME OrphanInv, ThreadStep, idx' = idx, listen_cnt' = listen_cnt,
         pc' = pc \/ pc' = "spin"
         \/ {pc, pc'} \subseteq {"ntfn", "lock", "polls", "tasks"}
  PROVE  SweepInv'
  BY DEF OrphanInv, SweepInv, ThreadStep

(* ... and, in the second loop, whatever idx is. *)
LEMMA SecondLoop ==
  ASSUME OrphanInv, ThreadStep,
         pc \in {"ntfn", "lock", "polls", "tasks"},
         pc' \in {"ntfn", "lock", "polls", "tasks"}
  PROVE  SweepInv'
  BY DEF OrphanInv, SweepInv, ThreadStep

(* The calls in the server's tables stay past Listen. *)
LEMMA HeldCalls ==
  ASSUME OrphanInv, ThreadStep
  PROVE  /\ \A k \in 1 .. Len(blocked) :
               /\ blocked[k] \in [thread : Threads, complete : BOOLEAN]
               /\ blocked[k].thread \in Threads
               /\ cl'[blocked[k].thread].op # "Listen"
         /\ hand # NoOne => hand \in Threads /\ cl'[hand].op # "Listen"
         /\ blocked \in Seq([thread : Threads, complete : BOOLEAN])
         /\ poll_eps' \in Seq(Threads)
  <1>1. blocked \in Seq([thread : Threads, complete : BOOLEAN])
    BY DEF OrphanInv, TablesOk
  <1>2. \A k \in 1 .. Len(blocked) : blocked[k] \in [thread : Threads, complete : BOOLEAN]
    BY <1>1, ElementOfSeq
  <1>3. \A k \in 1 .. Len(blocked) : blocked[k].thread \in Threads
    BY <1>2
  <1>4. \A k \in 1 .. Len(blocked) : cl[blocked[k].thread].op # "Listen"
    BY DEF OrphanInv, TablesOk
  <1>5. \A k \in 1 .. Len(blocked) : cl'[blocked[k].thread].op # "Listen"
    BY <1>3, <1>4 DEF ThreadStep
  <1>6. hand # NoOne => hand \in Threads /\ cl'[hand].op # "Listen"
    BY DEF OrphanInv, TablesOk, ThreadStep
  <1> QED
    BY <1>1, <1>2, <1>3, <1>5, <1>6 DEF ThreadStep

(* TablesOk is kept by a step that adds no call to the server's tables. *)
LEMMA SameTables ==
  ASSUME OrphanInv, ThreadStep, UNCHANGED <<waiting, blocked>>,
         hand' \in {hand, NoOne}, idx' \in Nat \ {0}, listen_cnt' \in Nat
  PROVE  TablesOk'
  <1>1. \E S : waiting' \in Seq([handle : S, thread : Threads])
    BY DEF OrphanInv, TablesOk
  <1> QED
    BY <1>1, HeldCalls DEF TablesOk

-----------------------------------------------------------------------------
(* The requests. *)

LEMMA ReqListenStep ==
  ASSUME OrphanInv, NEW c \in Threads, ReqListen(c), cl[c].st = "sending",
         idx' \in Nat \ {0}, listen_cnt' \in Nat
  PROVE  ThreadStep /\ TablesOk' /\ Placed(c)'
  <1> DEFINE r == [cl[c] EXCEPT !.st = "sent"]
  <1>1. RecOk(cl[c])
    BY DEF OrphanInv, ClOk
  <1>2. RecOk(r) /\ r.op = cl[c].op /\ r.st = "sent"
    BY <1>1, RecUpdate, ZenonT(60)
  <1>3. cl' = [cl EXCEPT ![c] = r] /\ poll_eps' = poll_eps
    BY DEF ReqListen
  <1>4. ThreadStep
    <2> HIDE DEF r
    <2> QED
      BY <1>2, <1>3, OneThread DEF OrphanInv
  <1>5. cl'[c] = r /\ cl[c].op = "Listen"
    BY <1>3 DEF OrphanInv, ClOk, ReqListen
  <1>6. \E S : waiting' \in Seq([handle : S, thread : Threads])
    <2>1. PICK S : waiting \in Seq([handle : S, thread : Threads])
      BY DEF OrphanInv, TablesOk
    <2> DEFINE h == Len(sock) + 1
               T == [handle : S \cup {h}, thread : Threads]
    <2>2. [handle : S, thread : Threads] \subseteq T
      OBVIOUS
    <2>3. waiting' = Append(waiting, [handle |-> h, thread |-> c])
      BY DEF ReqListen
    <2>4. [handle |-> h, thread |-> c] \in T
      OBVIOUS
    <2>5. waiting' \in Seq(T)
      <3> HIDE DEF T, h
      <3>1. waiting \in Seq(T)
        BY <2>1, <2>2, SeqMonotonic
      <3> QED
        BY <2>3, <2>4, <3>1, AppendProperties
    <2> QED
      BY <2>5
  <1>7. blocked' = blocked /\ hand' = hand
    BY DEF ReqListen
  <1>8. TablesOk'
    BY <1>4, <1>6, <1>7, HeldCalls DEF TablesOk
  <1> QED
    BY <1>2, <1>4, <1>5, <1>8 DEF Placed

(* A Recv or a Send: the thread is past Listen and stays so. *)
LEMMA ReqOtherStep ==
  ASSUME OrphanInv, NEW c \in Threads, ReqRecv(c) \/ ReqSend(c),
         idx' \in Nat \ {0}, listen_cnt' \in Nat
  PROVE  ThreadStep /\ TablesOk' /\ cl[c].op # "Listen"
  <1>1. RecOk(cl[c])
    BY DEF OrphanInv, ClOk
  <1>2. cl[c].op # "Listen" /\ poll_eps' = poll_eps /\ waiting' = waiting
    BY DEF ReqRecv, ReqSend
  <1>3. \E r : RecOk(r) /\ r.op = cl[c].op /\ cl' = [cl EXCEPT ![c] = r]
    <2>0. PICK w : w = Head(sock[cl[c].fd].rx)
      OBVIOUS
    <2> DEFINE q == [cl[c] EXCEPT !.st = "sent"]
               d == [cl[c] EXCEPT !.st = "sent", !.data = w]
    <2>1. RecOk(q) /\ q.op = cl[c].op
      BY <1>1, RecUpdate
    <2>2. RecOk(d) /\ d.op = cl[c].op
      BY <1>1, RecUpdate2
    <2>3. cl' = [cl EXCEPT ![c] = q] \/ cl' = [cl EXCEPT ![c] = d]
      BY <2>0 DEF ReqRecv, ReqSend
    <2> HIDE DEF q, d
    <2> QED
      BY <2>1, <2>3, <2>2
  <1>4. ThreadStep
    BY <1>2, <1>3, OneThread DEF OrphanInv
  <1>5. cl'[c].op # "Listen"
    BY <1>2, <1>4 DEF ThreadStep
  <1>6. hand' \in {hand, c}
    BY DEF ReqRecv, ReqSend
  <1>7. \/ blocked' = blocked
        \/ blocked' = Append(blocked, [thread |-> c, complete |-> FALSE])
    BY DEF ReqRecv, ReqSend
  <1>8. /\ blocked' \in Seq([thread : Threads, complete : BOOLEAN])
        /\ \A k \in 1 .. Len(blocked') : cl'[blocked'[k].thread].op # "Listen"
    <2>1. CASE blocked' = blocked
      BY <1>4, <2>1, HeldCalls
    <2>2. CASE blocked' = Append(blocked, [thread |-> c, complete |-> FALSE])
      <3> DEFINE e == [thread |-> c, complete |-> FALSE]
      <3>1. e \in [thread : Threads, complete : BOOLEAN] /\ e.thread = c
        OBVIOUS
      <3> HIDE DEF e
      <3>2. blocked' = Append(blocked, e)
        BY <2>2 DEF e
      <3>3. blocked \in Seq([thread : Threads, complete : BOOLEAN])
        BY <1>4, HeldCalls
      <3>4. /\ blocked' \in Seq([thread : Threads, complete : BOOLEAN])
            /\ Len(blocked') = Len(blocked) + 1
            /\ \A k \in 1 .. Len(blocked) : blocked'[k] = blocked[k]
            /\ blocked'[Len(blocked) + 1] = e
        BY <3>1, <3>2, <3>3, AppendProperties
      <3>5. \A k \in 1 .. Len(blocked') : k \in 1 .. Len(blocked) \/ k = Len(blocked) + 1
        BY <3>3, <3>4, LenProperties
      <3> QED
        BY <1>4, <1>5, <3>1, <3>4, <3>5, HeldCalls
    <2> QED
      BY <1>7, <2>1, <2>2
  <1>9. hand' # NoOne => hand' \in Threads /\ cl'[hand'].op # "Listen"
    BY <1>4, <1>5, <1>6, HeldCalls
  <1>10. \E S : waiting' \in Seq([handle : S, thread : Threads])
    BY <1>2 DEF OrphanInv, TablesOk
  <1> QED
    BY <1>2, <1>4, <1>8, <1>9, <1>10, HeldCalls DEF TablesOk

LEMMA NbRecvOrphan ==
  ASSUME OrphanInv, NEW c \in Threads, NbRecv(c),
         idx' \in Nat \ {0}, listen_cnt' \in Nat
  PROVE  /\ ThreadStep /\ TablesOk'
         /\ ~ntfn /\ cl[c].st = "sending" => cl[c].op # "Listen" \/ Placed(c)'
  <1>1. CASE ntfn /\ NetInterrupt
    <2>1. cl' = cl /\ poll_eps' = poll_eps /\ waiting' = waiting /\ blocked' = blocked
          /\ hand' = hand
      BY <1>1 DEF NetInterrupt, stack
    <2>2. ThreadStep
      BY <2>1, NoThread DEF OrphanInv
    <2> QED
      BY <1>1, <2>1, <2>2, SameTables
  <1>2. CASE ~ntfn /\ cl[c].st = "sending" /\ ReqListen(c)
    BY <1>2, ReqListenStep
  <1>3. CASE ~ntfn /\ cl[c].st = "sending" /\ (ReqRecv(c) \/ ReqSend(c))
    BY <1>3, ReqOtherStep
  <1>4. CASE ~ntfn /\ cl[c].st # "sending"
    <2>1. cl' = cl /\ poll_eps' = poll_eps /\ waiting' = waiting /\ blocked' = blocked
          /\ hand' = hand
      BY <1>4 DEF NbRecv, stack
    <2>2. ThreadStep
      BY <2>1, NoThread DEF OrphanInv
    <2> QED
      BY <1>4, <2>1, <2>2, SameTables
  <1> QED
    BY <1>1, <1>2, <1>3, <1>4 DEF NbRecv

-----------------------------------------------------------------------------
(* The listen table. *)

LEMMA PollSynOrphan ==
  ASSUME OrphanInv, PollSyn
  PROVE  OrphanInv'
  <1>1. /\ idx' = idx /\ listen_cnt' = listen_cnt /\ hand' = hand /\ blocked' = blocked
        /\ pc # "spin"
    BY DEF PollSyn, PollFrame
  <1>2. CASE waiting = <<>> \/ Len(waiting) >= QueueSize
    <2>1. cl' = cl /\ poll_eps' = poll_eps /\ waiting' = waiting /\ pc' = pc
      BY <1>2 DEF PollSyn
    <2>2. ThreadStep
      BY <2>1, NoThread DEF OrphanInv
    <2>3. TablesOk'
      BY <1>1, <2>1, <2>2, SameTables DEF OrphanInv, TablesOk
    <2> QED
      BY <1>1, <2>1, <2>2, <2>3, SameLoop DEF OrphanInv, ThreadStep
  <1>3. CASE waiting # <<>> /\ IncomingSyn
    <2>1. PICK S : waiting \in Seq([handle : S, thread : Threads])
      BY DEF OrphanInv, TablesOk
    <2>2. /\ Head(waiting) \in [handle : S, thread : Threads]
          /\ Tail(waiting) \in Seq([handle : S, thread : Threads])
      BY <1>3, <2>1, HeadTailProperties
    <2>3. PICK t \in Threads : t = Head(waiting).thread
      BY <2>2
    <2> DEFINE r == IF cl[t].st = "recv"
                    THEN Continue([cl[t] EXCEPT !.fd = Head(waiting).handle]) ELSE cl[t]
    <2>4. RecOk(cl[t])
      BY <2>3 DEF OrphanInv, ClOk
    <2>5. RecOk(r) /\ (cl[t].op # "Listen" => r.op # "Listen")
      <3>1. RecOk([cl[t] EXCEPT !.fd = Head(waiting).handle])
        BY <2>4, RecUpdate
      <3> QED
        BY <2>4, <3>1, ContinueOk
    <2>6. cl' = [cl EXCEPT ![t] = r] /\ waiting' = Tail(waiting)
      BY <1>3, <2>3 DEF IncomingSyn
    <2>7. (pc' = "spin" /\ poll_eps' = poll_eps) \/ (pc' = pc /\ poll_eps' = Append(poll_eps, t))
      BY <1>3, <2>3 DEF IncomingSyn
    <2> HIDE DEF r
    <2>8. /\ cl' = [x \in Threads |-> cl'[x]]
          /\ cl'[t] = r
          /\ \A x \in Threads : x # t => cl'[x] = cl[x]
      BY <2>3, <2>6 DEF OrphanInv, ClOk
    <2>9. ClOk' /\ \A c \in Threads : cl[c].op # "Listen" => cl'[c].op # "Listen"
      BY <2>5, <2>8 DEF ClOk, OrphanInv
    <2>10. poll_eps \in Seq(Threads)
      BY DEF OrphanInv, TablesOk
    <2>11. poll_eps' = Append(poll_eps, t) =>
             /\ poll_eps' \in Seq(Threads)
             /\ Len(poll_eps') = Len(poll_eps) + 1
             /\ \A k \in 1 .. Len(poll_eps) : poll_eps'[k] = poll_eps[k]
             /\ poll_eps'[Len(poll_eps) + 1] = t
      BY <2>3, <2>10, AppendProperties
    <2>12. poll_eps' = Append(poll_eps, t) => Polled(t)' /\ \A c : Polled(c) => Polled(c)'
      BY <2>10, <2>11, LenProperties DEF Polled
    <2>13. ThreadStep
      BY <1>1, <2>7, <2>8, <2>9, <2>10, <2>11, <2>12 DEF ThreadStep, Placed
    <2>14. TablesOk'
      <3>1. \E U : waiting' \in Seq([handle : U, thread : Threads])
        BY <2>2, <2>6
      <3> QED
        BY <1>1, <2>13, <3>1, HeldCalls DEF TablesOk, OrphanInv
    <2> QED
      BY <1>1, <2>7, <2>13, <2>14, SameLoop DEF OrphanInv, ThreadStep
  <1> QED
    BY <1>2, <1>3 DEF PollSyn

-----------------------------------------------------------------------------
(* The loops. *)

LEMMA SweepOrphan == ASSUME OrphanInv, Sweep PROVE OrphanInv'
  <1>1. /\ pc = "sweep" /\ pc' = "sweep" /\ idx' = idx + 1 /\ idx <= ThreadNum
        /\ idx \in Nat \ {0} /\ listen_cnt \in Nat /\ ThreadNum \in Nat
        /\ listen_cnt' = IF ~ntfn /\ cl[idx].st = "sending" THEN listen_cnt + 1
                                                            ELSE listen_cnt
    BY SyncAssumption DEF Sweep, Go, GoOn, OrphanInv, TablesOk
  <1>2. idx \in Threads /\ idx' \in Nat \ {0} /\ listen_cnt' \in Nat
    BY <1>1 DEF Threads
  <1>3. PICK c \in Threads : c = idx
    BY <1>2
  <1>4. NbRecv(c)
    BY <1>3 DEF Sweep
  <1>5. /\ ThreadStep /\ TablesOk'
        /\ ~ntfn /\ cl[c].st = "sending" => cl[c].op # "Listen" \/ Placed(c)'
    BY <1>2, <1>4, NbRecvOrphan
  <1>6. ~ntfn /\ cl[c].st = "sending" => Placed(c)'
    BY <1>1, <1>5 DEF OrphanInv, SweepInv, ThreadStep, Placed
  <1>7. idx' <= ThreadNum + 1 /\ listen_cnt' < idx'
    BY <1>1 DEF OrphanInv, SweepInv
  <1>8. ASSUME listen_cnt' + 1 = idx', NEW x \in Threads, x < idx' PROVE Placed(x)'
    <2>1. ~ntfn /\ cl[c].st = "sending" /\ listen_cnt + 1 = idx
      BY <1>1, <1>3, <1>8 DEF OrphanInv, SweepInv
    <2>2. x < idx \/ x = c
      BY <1>1, <1>3, <1>8 DEF Threads
    <2>3. CASE x = c
      BY <1>6, <2>1, <2>3
    <2>4. CASE x < idx
      <3>1. Placed(x)
        BY <1>1, <2>1, <2>4 DEF OrphanInv, SweepInv
      <3> QED
        BY <1>1, <1>5, <3>1 DEF ThreadStep
    <2> QED
      BY <2>2, <2>3, <2>4
  <1>9. \A x \in Threads : cl'[x].op # "Listen" => Polled(x)'
    BY <1>1, <1>5 DEF OrphanInv, SweepInv, ThreadStep
  <1>10. SweepInv'
    BY <1>1, <1>7, <1>8, <1>9 DEF SweepInv
  <1> QED
    BY <1>5, <1>10 DEF OrphanInv, ThreadStep

LEMMA SweepEndOrphan == ASSUME OrphanInv, SweepEnd PROVE OrphanInv'
  <1>1. /\ cl' = cl /\ poll_eps' = poll_eps /\ waiting' = waiting /\ blocked' = blocked
        /\ hand' = hand /\ idx' = 1 /\ listen_cnt' = 0 /\ pc = "sweep" /\ idx > ThreadNum
        /\ pc' = IF listen_cnt = ThreadNum THEN "ntfn" ELSE "sweep"
    BY DEF SweepEnd, Go, GoOn, stack
  <1>2. ThreadStep
    BY <1>1, NoThread DEF OrphanInv
  <1>3. TablesOk'
    BY <1>1, <1>2, SameTables
  <1>4. idx \in Nat /\ listen_cnt \in Nat /\ ThreadNum \in Nat \ {0}
    BY SyncAssumption DEF OrphanInv, TablesOk
  <1>5. listen_cnt = ThreadNum => \A c \in Threads : Placed(c)
    <2>1. listen_cnt = ThreadNum => listen_cnt + 1 = idx
      BY <1>1, <1>4 DEF OrphanInv, SweepInv
    <2>2. \A c \in Threads : c < idx
      BY <1>1, <1>4 DEF Threads
    <2> QED
      BY <1>1, <2>1, <2>2 DEF OrphanInv, SweepInv
  <1>6. \A c \in Threads : ~(c < 1)
    BY DEF Threads
  <1>7. \A c \in Threads : cl'[c].op # "Listen" => Polled(c)'
    BY <1>1, <1>2 DEF OrphanInv, SweepInv, ThreadStep
  <1>8. pc' = "ntfn" => \A c \in Threads : Placed(c)'
    BY <1>1, <1>2, <1>5 DEF ThreadStep
  <1>9. 1 <= ThreadNum + 1 /\ 0 < 1
    BY <1>4
  <1>10. SweepInv'
    BY <1>1, <1>6, <1>7, <1>8, <1>9 DEF SweepInv
  <1> QED
    BY <1>2, <1>3, <1>10 DEF OrphanInv, ThreadStep

(* The steps of the second loop that take no request. *)
LEMMA LoopOrphan ==
  ASSUME OrphanInv, PollNtfn \/ LockEps \/ PollEpsEnd
  PROVE  OrphanInv'
  <1>1. /\ cl' = cl /\ poll_eps' = poll_eps /\ waiting' = waiting /\ blocked' = blocked
        /\ hand' = hand /\ idx' = 1 /\ listen_cnt' = listen_cnt
        /\ {pc, pc'} \subseteq {"ntfn", "lock", "polls", "tasks"}
    BY DEF PollNtfn, LockEps, PollEpsEnd, Go, GoOn, stack, NetInterrupt
  <1>2. ThreadStep
    BY <1>1, NoThread DEF OrphanInv
  <1>3. listen_cnt \in Nat /\ 1 \in Nat \ {0}
    BY DEF OrphanInv, TablesOk
  <1> QED
    BY <1>1, <1>2, <1>3, SameTables, SecondLoop DEF OrphanInv, ThreadStep

LEMMA PollEpsOrphan == ASSUME OrphanInv, PollEps PROVE OrphanInv'
  <1>1. /\ pc = "polls" /\ pc' = "polls" /\ idx' = idx + 1 /\ listen_cnt' = listen_cnt
        /\ idx <= Len(poll_eps) /\ NbRecv(poll_eps[idx])
        /\ idx \in Nat \ {0} /\ listen_cnt \in Nat /\ poll_eps \in Seq(Threads)
    BY DEF PollEps, Go, GoOn, OrphanInv, TablesOk
  <1>2. idx \in 1 .. Len(poll_eps)
    BY <1>1, LenProperties
  <1>3. poll_eps[idx] \in Threads
    BY <1>1, <1>2, ElementOfSeq
  <1>4. idx' \in Nat \ {0} /\ listen_cnt' \in Nat
    BY <1>1
  <1>5. ThreadStep /\ TablesOk'
    BY <1>1, <1>3, <1>4, NbRecvOrphan
  <1> QED
    BY <1>1, <1>5, SecondLoop DEF OrphanInv, ThreadStep

LEMMA BlockedTaskOrphan == ASSUME OrphanInv, BlockedTask PROVE OrphanInv'
  <1>1. /\ pc = "tasks" /\ pc' = "tasks" /\ idx' = idx + 1 /\ listen_cnt' = listen_cnt
        /\ idx <= Len(blocked) /\ waiting' = waiting /\ poll_eps' = poll_eps
        /\ idx \in Nat \ {0} /\ listen_cnt \in Nat
        /\ blocked \in Seq([thread : Threads, complete : BOOLEAN])
    BY DEF BlockedTask, Go, GoOn, OrphanInv, TablesOk
  <1>2. idx \in 1 .. Len(blocked) /\ idx' \in Nat \ {0} /\ listen_cnt' \in Nat
    BY <1>1, LenProperties
  <1>3. blocked[idx] \in [thread : Threads, complete : BOOLEAN]
    BY <1>1, <1>2, ElementOfSeq
  <1>4. PICK c \in Threads : c = blocked[idx].thread
    BY <1>3
  <1>5. cl[c].op # "Listen" /\ RecOk(cl[c])
    BY <1>2, <1>4 DEF OrphanInv, TablesOk, ClOk
  <1>6. CASE cl' = cl /\ blocked' = blocked /\ hand' = hand
    <2>1. ThreadStep
      BY <1>1, <1>6, NoThread DEF OrphanInv
    <2> QED
      BY <1>1, <1>2, <1>6, <2>1, SameTables, SecondLoop DEF OrphanInv, ThreadStep
  <1>7. CASE /\ cl' = [cl EXCEPT ![c].data = Head(sock[cl[c].fd].rx)]
             /\ blocked' = [blocked EXCEPT ![idx].complete = TRUE]
             /\ hand' = c
    <2>0. PICK w : w = Head(sock[cl[c].fd].rx)
      OBVIOUS
    <2> DEFINE r == [cl[c] EXCEPT !.data = w]
    <2>1. RecOk(r) /\ r.op = cl[c].op
      BY <1>5, RecUpdate
    <2>2. cl' = [cl EXCEPT ![c] = r]
      BY <1>7, <2>0
    <2> HIDE DEF r
    <2>3. ThreadStep
      BY <1>1, <1>5, <2>1, <2>2, OneThread DEF OrphanInv
    <2>4. PICK e \in [thread : Threads, complete : BOOLEAN] :
             e.thread = c /\ blocked' = [blocked EXCEPT ![idx] = e]
      <3>1. [blocked[idx] EXCEPT !.complete = TRUE] \in [thread : Threads, complete : BOOLEAN]
        BY <1>3
      <3>2. [blocked[idx] EXCEPT !.complete = TRUE].thread = c
        BY <1>3, <1>4
      <3> QED
        BY <1>7, <3>1, <3>2
    <2>5. /\ blocked' \in Seq([thread : Threads, complete : BOOLEAN])
          /\ Len(blocked') = Len(blocked)
          /\ \A k \in 1 .. Len(blocked) : blocked'[k] = IF k = idx THEN e ELSE blocked[k]
      BY <1>1, <1>2, <2>4, ExceptSeq
    <2>6. \A k \in 1 .. Len(blocked') : cl'[blocked'[k].thread].op # "Listen"
      BY <1>5, <2>3, <2>4, <2>5, HeldCalls DEF ThreadStep
    <2>7. hand' # NoOne => hand' \in Threads /\ cl'[hand'].op # "Listen"
      BY <1>5, <1>7, <2>3 DEF ThreadStep
    <2>8. \E S : waiting' \in Seq([handle : S, thread : Threads])
      BY <1>1 DEF OrphanInv, TablesOk
    <2>9. TablesOk'
      BY <1>2, <2>3, <2>5, <2>6, <2>7, <2>8, HeldCalls DEF TablesOk
    <2> QED
      BY <1>1, <2>3, <2>9, SecondLoop DEF OrphanInv, ThreadStep
  <1> QED
    BY <1>4, <1>6, <1>7 DEF BlockedTask

LEMMA TasksEndOrphan == ASSUME OrphanInv, TasksEnd PROVE OrphanInv'
  <1>1. /\ pc = "tasks" /\ pc' = "ntfn" /\ idx' = 1 /\ listen_cnt' = listen_cnt
        /\ cl' = cl /\ poll_eps' = poll_eps /\ waiting' = waiting /\ hand' = hand
    BY DEF TasksEnd, Go, GoOn, stack
  <1>2. ThreadStep
    BY <1>1, NoThread DEF OrphanInv
  <1>3. blocked \in Seq([thread : Threads, complete : BOOLEAN])
    BY DEF OrphanInv, TablesOk
  <1>4. Pending \subseteq 1 .. Len(blocked) /\ Len(blocked) \in Nat
    BY <1>3, LenProperties DEF Pending
  <1>5. Cardinality(Pending) \in Nat
    <2>1. IsFiniteSet(1 .. Len(blocked))
      BY <1>4, FS_Interval
    <2>2. IsFiniteSet(Pending)
      BY <1>4, <2>1, FS_Subset
    <2> QED
      BY <2>2, FS_CardinalityType
  <1>6. PICK f \in [1 .. Cardinality(Pending) -> Pending] :
           blocked' = [i \in DOMAIN f |-> blocked[f[i]]]
    BY DEF TasksEnd
  <1>7. /\ blocked' = [i \in 1 .. Cardinality(Pending) |-> blocked[f[i]]]
        /\ \A i \in 1 .. Cardinality(Pending) : f[i] \in 1 .. Len(blocked)
    BY <1>4, <1>6
  <1>8. blocked' \in Seq([thread : Threads, complete : BOOLEAN])
        /\ Len(blocked') = Cardinality(Pending)
    <2>1. blocked' \in [1 .. Cardinality(Pending) -> [thread : Threads, complete : BOOLEAN]]
      BY <1>2, <1>7, HeldCalls
    <2>2. PICK n \in Nat : n = Cardinality(Pending)
      BY <1>5
    <2>3. PICK b : b = blocked'
      OBVIOUS
    <2>4. b \in [1 .. n -> [thread : Threads, complete : BOOLEAN]]
      BY <2>1, <2>2, <2>3
    <2>5. b \in Seq([thread : Threads, complete : BOOLEAN])
      <3> DEFINE T == [thread : Threads, complete : BOOLEAN]
      <3>1. b \in [1 .. n -> T]
        BY <2>4
      <3> HIDE DEF T
      <3>2. Seq(T) = UNION {[1 .. m -> T] : m \in Nat}
        BY SeqDef
      <3>3. b \in Seq(T)
        BY <3>1, <3>2, Zenon
      <3> QED
        BY <3>3 DEF T
    <2>6. Len(b) = n
      BY <2>5, <2>4, LenProperties
    <2> QED
      BY <2>2, <2>3, <2>5, <2>6
  <1>9. \A k \in 1 .. Len(blocked') : cl'[blocked'[k].thread].op # "Listen"
    BY <1>2, <1>7, <1>8, HeldCalls
  <1>10. \E S : waiting' \in Seq([handle : S, thread : Threads])
    BY <1>1 DEF OrphanInv, TablesOk
  <1>11. listen_cnt' \in Nat /\ idx' \in Nat \ {0}
    BY <1>1 DEF OrphanInv, TablesOk
  <1>12. TablesOk'
    BY <1>1, <1>2, <1>8, <1>9, <1>10, <1>11, HeldCalls DEF TablesOk
  <1> QED
    BY <1>1, <1>2, <1>12, SecondLoop DEF OrphanInv, ThreadStep

LEMMA ReplyOrphan == ASSUME OrphanInv, Reply PROVE OrphanInv'
  <1>1. /\ hand # NoOne /\ hand' = NoOne /\ idx' = idx /\ listen_cnt' = listen_cnt /\ pc' = pc
        /\ poll_eps' = poll_eps /\ waiting' = waiting /\ blocked' = blocked
    BY DEF Reply, stack, server
  <1>2. PICK c \in Threads : c = hand /\ cl[c].op # "Listen"
    BY <1>1 DEF OrphanInv, TablesOk
  <1> DEFINE r == Continue(cl[c])
  <1>3. RecOk(r) /\ r.op # "Listen"
    BY ContinueOk DEF OrphanInv, ClOk
  <1>4. cl' = [cl EXCEPT ![c] = r]
    BY <1>2 DEF Reply
  <1> HIDE DEF r
  <1>5. ThreadStep
    BY <1>1, <1>2, <1>3, <1>4, OneThread DEF OrphanInv
  <1>6. idx' \in Nat \ {0} /\ listen_cnt' \in Nat
    BY <1>1 DEF OrphanInv, TablesOk
  <1> QED
    BY <1>1, <1>5, <1>6, SameTables, SameLoop DEF OrphanInv, ThreadStep

LEMMA ClientOrphan == ASSUME OrphanInv, ClientThreads PROVE OrphanInv'
  <1>1. PICK c \in Threads : ClientSend(c) \/ ClientRecv(c)
    BY DEF ClientThreads
  <1>2. /\ hand' = hand /\ idx' = idx /\ listen_cnt' = listen_cnt /\ pc' = pc
        /\ poll_eps' = poll_eps /\ waiting' = waiting /\ blocked' = blocked
    BY <1>1 DEF ClientSend, ClientRecv, stack, server
  <1>3. PICK v \in {"sending", "recv"} :
          /\ cl' = [cl EXCEPT ![c] = [cl[c] EXCEPT !.st = v]]
          /\ cl[c].st \in {"sent", "recv"} => v = "recv"
    BY <1>1 DEF ClientSend, ClientRecv
  <1> DEFINE r == [cl[c] EXCEPT !.st = v]
  <1>4. RecOk(r) /\ r.op = cl[c].op /\ r.st = v
    <2>1. RecOk(cl[c])  BY DEF OrphanInv, ClOk
    <2> QED  BY <2>1, RecUpdate, ZenonT(60)
  <1>5. cl' = [cl EXCEPT ![c] = r]
    BY <1>3
  <1> HIDE DEF r
  <1>6. ThreadStep
    BY <1>2, <1>3, <1>4, <1>5, OneThread DEF OrphanInv
  <1>7. idx' \in Nat \ {0} /\ listen_cnt' \in Nat
    BY <1>2 DEF OrphanInv, TablesOk
  <1> QED
    BY <1>2, <1>6, <1>7, SameTables, SameLoop DEF OrphanInv, ThreadStep

(* The steps that touch neither the threads nor the server's tables. *)
LEMMA OtherOrphan ==
  ASSUME OrphanInv, cl' = cl, poll_eps' = poll_eps, waiting' = waiting, blocked' = blocked,
         hand' = hand, idx' = idx, listen_cnt' = listen_cnt, pc' = pc
  PROVE  OrphanInv'
  <1>1. ThreadStep
    BY NoThread DEF OrphanInv
  <1>2. idx' \in Nat \ {0} /\ listen_cnt' \in Nat
    BY DEF OrphanInv, TablesOk
  <1> QED
    BY <1>1, <1>2, SameTables, SameLoop DEF OrphanInv, ThreadStep

LEMMA OrphanNext == OrphanInv /\ [Next]_vars => OrphanInv'
  <1> SUFFICES ASSUME OrphanInv, [Next]_vars PROVE OrphanInv'
    OBVIOUS
  <1>1. CASE ServerThread
    <2>1. CASE PollData \/ PollReset
      BY <2>1, OtherOrphan DEF PollData, PollReset, PollFrame
    <2>2. CASE PollEnd \/ IrqAck \/ Spin
      BY <2>2, OtherOrphan DEF PollEnd, IrqAck, Spin, stack, server
    <2> QED
      BY <1>1, <2>1, <2>2, SweepOrphan, SweepEndOrphan, LoopOrphan, PollEpsOrphan,
         BlockedTaskOrphan, TasksEndOrphan, ReplyOrphan, PollSynOrphan DEF ServerThread
  <1>2. CASE \E p \in Peers : Network(p)
    BY <1>2, OtherOrphan
    DEF Network, PeerConnect, PeerRetransmit, PeerData, PeerReset, Arrive, server
  <1>3. CASE UNCHANGED vars
    BY <1>3, OtherOrphan DEF vars, stack, server
  <1> QED
    BY <1>1, <1>2, <1>3, ClientOrphan DEF Next

LEMMA OrphanInit == Init => OrphanInv
  <1> SUFFICES ASSUME Init PROVE OrphanInv
    OBVIOUS
  <1>1. ThreadNum \in Nat \ {0}
    BY SyncAssumption
  <1>2. ClOk
    BY DEF Init, ClOk, RecOk, Ops
  <1>3. <<>> \in Seq(Threads) /\ <<>> \in Seq([thread : Threads, complete : BOOLEAN])
        /\ <<>> \in Seq([handle : {}, thread : Threads]) /\ Len(<<>>) = 0
    BY EmptySeq
  <1>4. TablesOk
    BY <1>3 DEF Init, TablesOk
  <1>5. SweepInv
    BY <1>1 DEF Init, SweepInv, Threads
  <1> QED
    BY <1>2, <1>4, <1>5 DEF OrphanInv

(* Whatever the number of threads and the order in which they start, the   *)
(* sweep loop of net_stack_test ends only when the second loop hears every *)
(* thread: one that is blocked in ep.send is on an endpoint of POLL_EPS.   *)
THEOREM SendersPolled == Spec => []NoOrphanSender
  <1>1. OrphanInv => NoOrphanSender
    <2> SUFFICES ASSUME OrphanInv, pc \in {"ntfn", "lock", "polls", "tasks"},
                        NEW c \in Threads, cl[c].st = "sending"
                 PROVE  c \in Range(poll_eps)
      BY DEF NoOrphanSender
    <2>1. Polled(c)
      BY DEF OrphanInv, SweepInv, Placed
    <2>2. poll_eps \in Seq(Threads)
      BY DEF OrphanInv, TablesOk
    <2>3. DOMAIN poll_eps = 1 .. Len(poll_eps)
      BY <2>2, LenProperties
    <2> QED
      BY <2>1, <2>3 DEF Polled, Range
  <1> QED
    BY <1>1, OrphanInit, OrphanNext, PTL DEF Spec

-----------------------------------------------------------------------------
(* What the server's tables say about the threads, the sockets and the     *)
(* network.  Each part below is inductive given the parts before it.       *)

Sts == {"ready", "sending", "sent", "recv", "done"}
Inside == {"sent", "recv"}

ThreadSet == [st : Sts, op : Ops, fd : Nat, data : {"none", "x", "."}, seen : Nat]
SockSet == [st : {"listen", "established", "closed"},
            peer : {{}} \cup {{p} : p \in Peers}, rx : Seq({"x", "."})]
PeerSet == [st : {"idle", "syn_sent", "syn_resent", "established", "reset"},
            sent : Nat, echoed : Nat]
WaitSet == [handle : Nat \ {0}, thread : Threads]
TaskSet == [thread : Threads, complete : BOOLEAN]

(* Every component has its type, and a handle names a socket. *)
Typed ==
    /\ hand \in Threads \cup {NoOne}
    /\ sock \in Seq(SockSet)
    /\ peer \in [Peers -> PeerSet]
    /\ frames \in Seq(FrameSet)
    /\ waiting \in Seq(WaitSet)
    /\ \A k \in 1 .. Len(waiting) : waiting[k].handle <= Len(sock)
    /\ blocked \in Seq(TaskSet)
    /\ poll_eps \in Seq(Threads)
    /\ cl \in [Threads -> ThreadSet]
    /\ \A c \in Threads : cl[c].fd <= Len(sock)
    /\ \A c \in Threads : cl[c].fd = NoFd <=> cl[c].op = "Listen"
    /\ \A c \in Threads : cl[c].op = "Listen" => cl[c].seen = 0

(* Which thread is in which table, each at most once. *)
Waits(c) == \E k \in 1 .. Len(waiting) : waiting[k].thread = c
Blocked(c) == \E k \in 1 .. Len(blocked) : blocked[k].thread = c /\ ~blocked[k].complete

WaitingOnce == \A i, j \in 1 .. Len(waiting) : waiting[i].thread = waiting[j].thread => i = j
PolledOnce == \A i, j \in 1 .. Len(poll_eps) : poll_eps[i] = poll_eps[j] => i = j
BlockedOnce == \A i, j \in 1 .. Len(blocked) : blocked[i].thread = blocked[j].thread => i = j

Seat(c) ==
    /\ Waits(c) => cl[c].op = "Listen" /\ cl[c].st \in Inside /\ ~Polled(c)
    /\ Polled(c) /\ cl[c].op = "Listen" => cl[c].st \in Inside
    /\ Blocked(c) => cl[c].op = "Recv" /\ cl[c].st \in Inside /\ hand # c
    /\ hand = c => cl[c].op # "Listen" /\ cl[c].st \in Inside

Places == WaitingOnce /\ PolledOnce /\ BlockedOnce /\ \A c \in Threads : Seat(c)

(* Where the loops are: only the tasks before idx are completed. *)
Loops ==
    /\ pc \in {"sweep", "ntfn", "lock", "polls", "tasks", "spin"}
    /\ polling \in {"no", "irq", "send", "ack"}
    /\ idx \in 1 .. ThreadNum + 1
    /\ listen_cnt \in 0 .. ThreadNum
    /\ pc # "sweep" => listen_cnt = 0
    /\ pc = "polls" => idx <= Len(poll_eps) + 1
    /\ pc = "tasks" => idx <= Len(blocked) + 1 /\ polling = "no"
    /\ \A k \in 1 .. Len(blocked) : blocked[k].complete => pc = "tasks" /\ k < idx

(* A socket has a peer once it no longer listens, and a peer one socket;   *)
(* a thread that has seen a byte has a connected socket.                   *)
SockOk(h) == /\ sock[h].st = "listen" <=> sock[h].peer = {}
             /\ sock[h].st = "listen" => sock[h].rx = <<>>

Owner(h, p) == sock[h].peer = {p}

Owned == /\ \A g, h \in 1 .. Len(sock), p \in Peers : Owner(g, p) /\ Owner(h, p) => g = h
         /\ \A h \in 1 .. Len(sock), p \in Peers :
               Owner(h, p) => peer[p].st \in {"established", "reset"}
         /\ \A p \in Peers : peer[p].st \in {"established", "reset"} =>
               \E h \in 1 .. Len(sock) : Owner(h, p)

Fresh(c) == cl[c].op # "Listen" /\ sock[cl[c].fd].st = "listen" =>
               cl[c].op = "Recv" /\ hand # c /\ cl[c].seen = 0

Sockets == /\ \A h \in 1 .. Len(sock) : SockOk(h)
           /\ Owned
           /\ \A c \in Threads : Fresh(c)

(* The SYNs in the device, and the peers that wait for an answer. *)
SynFrames == {f \in FrameSet : f.type = "SYN"}
At(s, M) == {k \in 1 .. Len(s) : s[k] \in M}
SynAt == At(frames, SynFrames)
SynSent == {q \in Peers : peer[q].st = "syn_sent"}
Receiving(k) == cl[waiting[k].thread].st = "recv"

(* A SYN is in the device once unless it is repeated, ... *)
Known == \A k \in 1 .. Len(frames) : peer[frames[k].peer].st # "idle"
Unrepeated == \A i, j \in SynAt :
                 frames[i].peer \in SynSent /\ (frames[i].peer = frames[j].peer => i = j)
SynOnce == IsFiniteSet(SynSent) /\ Known /\ ("retransmit" \notin faults => Unrepeated)

(* ... and, if none comes early, for each there is a thread in ep.recv. *)
Heard ==
    "retransmit" \notin faults /\ "early_syn" \notin faults =>
        Cardinality(SynAt) <= Len(waiting) /\ \A k \in 1 .. Cardinality(SynAt) : Receiving(k)

(* If none comes in the first loop, all threads are in ep.recv by then. *)
Started ==
    "sweep_syn" \notin faults =>
        /\ pc = "sweep" => \A p \in Peers : peer[p].st = "idle"
        /\ "early_syn" \notin faults /\ (\E p \in Peers : peer[p].st # "idle") =>
              \A k \in 1 .. Len(waiting) : Receiving(k)

Syns == SynOnce /\ Heard /\ Started

(* Where the call of thread c is: a Listen may be lost, since the listen   *)
(* table answers with nb_send, and so may a Send on a closed connection or *)
(* into a full buffer.                                                     *)
Kept(c) ==
    cl[c].st \in Inside =>
        /\ cl[c].op = "Listen" => Waits(c) \/ Hasty
        /\ cl[c].op = "Recv" => Blocked(c) \/ hand = c
        /\ cl[c].op \in {"Send", "Bye"} =>
              hand = c \/ sock[cl[c].fd].st = "closed" \/ "tx_full" \in faults

(* The listen table and TCP agree on the socket that comes next: handles   *)
(* wait in their order, each with one thread, and they are the sockets     *)
(* that listen until the queue is full, after which no Listen is answered. *)
Sorted == \A i, j \in 1 .. Len(waiting) : i < j => waiting[i].handle < waiting[j].handle

Apart == /\ \A c \in Threads, k \in 1 .. Len(waiting) : cl[c].fd # waiting[k].handle
         /\ \A c, d \in Threads : cl[c].fd = cl[d].fd /\ cl[c].fd # NoFd => c = d

Matched ==
    "retransmit" \notin faults /\ pc # "spin" /\ Len(waiting) < QueueSize =>
        /\ \A h \in 1 .. Len(sock) :
              sock[h].st = "listen" => \E k \in 1 .. Len(waiting) : waiting[k].handle = h
        /\ \A k \in 1 .. Len(waiting) : sock[waiting[k].handle].st = "listen"

Handles == Sorted /\ Apart /\ Matched /\ GivenSocketsConnected

(* The bytes of a peer that waits for each answer: none before it is       *)
(* connected, at most one more than the answers it has, and all of them on *)
(* their way to the thread of its socket, if that has one.                 *)
Given(h) == \E c \in Threads : cl[c].fd = h

Silent == \A p \in Peers : peer[p].st \notin {"established", "reset"} =>
              peer[p].sent = 0 /\ peer[p].echoed = 0 /\ InFlight(p) = 0

InStep == \A p \in Peers : peer[p].sent <= peer[p].echoed + 1

Unread(h, p) == peer[p].sent = InFlight(p) + Len(sock[h].rx) /\ peer[p].echoed = 0

Seen(c, p) == /\ peer[p].sent = InFlight(p) + Len(sock[cl[c].fd].rx)
                                   + (IF Read(c) THEN 1 ELSE 0) + cl[c].seen
              /\ peer[p].echoed <= cl[c].seen
              /\ cl[c].op \in {"Send", "Bye"} /\ cl[c].st \in {"ready", "sending"} =>
                    peer[p].echoed < cl[c].seen

Bytes ==
    /\ Silent
    /\ "burst" \notin faults =>
        /\ InStep
        /\ \A h \in 1 .. Len(sock), p \in Peers : Owner(h, p) /\ ~Given(h) => Unread(h, p)
        /\ \A c \in Threads, p \in Peers :
              cl[c].op # "Listen" /\ Owner(cl[c].fd, p) => Seen(c, p)


-----------------------------------------------------------------------------
(* What the steps do, in terms of the parts above. *)

(* A thread's state changes, its call does not. *)
Moved(c, v) ==
    /\ cl' \in [Threads -> ThreadSet]
    /\ \A x \in Threads : x # c => cl'[x] = cl[x]
    /\ cl'[c].st = v /\ cl'[c].op = cl[c].op
    /\ cl'[c].fd = cl[c].fd /\ cl'[c].seen = cl[c].seen

(* A thread has its answer and goes on to its next call, on socket h. *)
Answered(c, h) ==
    /\ cl' \in [Threads -> ThreadSet]
    /\ \A x \in Threads : x # c => cl'[x] = cl[x]
    /\ cl'[c].fd = h /\ cl'[c].op # "Listen"
    /\ cl'[c].st = "ready" \/ (cl'[c].st = "done" /\ cl[c].op = "Bye")
    /\ cl[c].op = "Listen" => cl'[c].op = "Recv" /\ cl'[c].seen = cl[c].seen
    /\ cl[c].op = "Recv" => cl'[c].op \in {"Send", "Bye"} /\ cl'[c].seen = cl[c].seen + 1
    /\ cl[c].op \in {"Send", "Bye"} =>
          (cl'[c].op = "Recv" \/ cl'[c].st = "done") /\ cl'[c].seen = cl[c].seen

(* Bytes are read from socket g, which keeps n. *)
Drained(g, n) ==
    /\ sock' \in Seq(SockSet) /\ Len(sock') = Len(sock)
    /\ sock[g].rx # <<>> /\ Len(sock'[g].rx) = n
    /\ \A h \in 1 .. Len(sock) : sock'[h].st = sock[h].st /\ sock'[h].peer = sock[h].peer
    /\ \A h \in 1 .. Len(sock) : h # g => sock'[h].rx = sock[h].rx

ListenStep(c) ==
    /\ cl[c].st = "sending" /\ cl[c].op = "Listen" /\ Moved(c, "sent")
    /\ pc = "sweep" \/ Polled(c)
    /\ sock' \in Seq(SockSet) /\ Len(sock') = Len(sock) + 1
    /\ \A h \in 1 .. Len(sock) : sock'[h] = sock[h]
    /\ sock'[Len(sock) + 1].st = "listen"
    /\ sock'[Len(sock) + 1].peer = {} /\ sock'[Len(sock) + 1].rx = <<>>
    /\ waiting' \in Seq(WaitSet) /\ Len(waiting') = Len(waiting) + 1
    /\ \A k \in 1 .. Len(waiting) : waiting'[k] = waiting[k]
    /\ waiting'[Len(waiting) + 1].thread = c
    /\ waiting'[Len(waiting) + 1].handle = Len(sock) + 1
    /\ UNCHANGED <<hand, poll_eps, frames, peer, blocked>>

GetStep(c) ==
    /\ cl[c].st = "sending" /\ cl[c].op = "Recv" /\ Moved(c, "sent")
    /\ hand = NoOne /\ hand' = c
    /\ Drained(cl[c].fd, Len(sock[cl[c].fd].rx) - 1)
    /\ UNCHANGED <<waiting, poll_eps, frames, peer, blocked>>

ParkStep(c) ==
    /\ cl[c].st = "sending" /\ cl[c].op = "Recv" /\ Moved(c, "sent")
    /\ pc \in {"sweep", "polls"} /\ hand = NoOne
    /\ blocked' \in Seq(TaskSet) /\ Len(blocked') = Len(blocked) + 1
    /\ \A k \in 1 .. Len(blocked) : blocked'[k] = blocked[k]
    /\ blocked'[Len(blocked) + 1].thread = c /\ ~blocked'[Len(blocked) + 1].complete
    /\ UNCHANGED <<hand, waiting, poll_eps, sock, frames, peer>>

SendStep(c) ==
    /\ cl[c].st = "sending" /\ cl[c].op \in {"Send", "Bye"} /\ Moved(c, "sent")
    /\ hand = NoOne /\ hand' = c
    /\ peer' \in [Peers -> PeerSet]
    /\ \A p \in Peers :
          /\ peer'[p].st = peer[p].st /\ peer'[p].sent = peer[p].sent
          /\ peer'[p].echoed = IF sock[cl[c].fd].peer = {p} THEN peer[p].echoed + 1
                                                            ELSE peer[p].echoed
    /\ UNCHANGED <<waiting, poll_eps, sock, frames, blocked>>

CutStep(c) ==
    /\ cl[c].st = "sending" /\ cl[c].op \in {"Send", "Bye"} /\ Moved(c, "sent")
    /\ sock[cl[c].fd].st # "established" \/ "tx_full" \in faults
    /\ UNCHANGED <<hand, waiting, poll_eps, sock, frames, peer, blocked>>

TaskStep(c) ==
    /\ pc = "tasks" /\ idx \in 1 .. Len(blocked) /\ blocked[idx].thread = c
    /\ Moved(c, cl[c].st)
    /\ hand = NoOne /\ hand' = c
    /\ Drained(cl[c].fd, 0)
    /\ blocked' \in Seq(TaskSet) /\ Len(blocked') = Len(blocked)
    /\ \A k \in 1 .. Len(blocked) :
          /\ blocked'[k].thread = blocked[k].thread
          /\ blocked'[k].complete <=> k = idx \/ blocked[k].complete
    /\ UNCHANGED <<waiting, poll_eps, frames, peer>>

PurgeStep ==
    /\ blocked' \in Seq(TaskSet) /\ Len(blocked') <= Len(blocked)
    /\ \A i \in 1 .. Len(blocked') : ~blocked'[i].complete
    /\ \A i \in 1 .. Len(blocked') : \E k \in 1 .. Len(blocked) : blocked'[i] = blocked[k]
    /\ \A k \in 1 .. Len(blocked) :
          ~blocked[k].complete => \E i \in 1 .. Len(blocked') : blocked'[i] = blocked[k]
    /\ (\A i, j \in 1 .. Len(blocked) : blocked[i].thread = blocked[j].thread => i = j) =>
          \A i, j \in 1 .. Len(blocked') : blocked'[i].thread = blocked'[j].thread => i = j
    /\ UNCHANGED <<hand, waiting, poll_eps, sock, frames, peer, cl>>

ReplyStep(c) ==
    /\ hand = c /\ hand' = NoOne /\ cl[c].st = "recv"
    /\ Answered(c, cl[c].fd)
    /\ UNCHANGED <<waiting, poll_eps, sock, frames, peer, blocked>>

(* The frame taken. *)
Taken(type, p) ==
    /\ frames # <<>> /\ Head(frames).type = type /\ Head(frames).peer = p
    /\ frames' = Tail(frames) /\ frames' \in Seq(FrameSet)
    /\ pc # "spin"
    /\ UNCHANGED <<hand, blocked>>

(* The listen table's part of a SYN, ... *)
TableStep ==
    \/ /\ waiting = <<>> \/ Len(waiting) >= QueueSize
       /\ UNCHANGED <<waiting, cl, pc, poll_eps>>
    \/ /\ waiting # <<>> /\ Len(waiting) < QueueSize
       /\ waiting' \in Seq(WaitSet) /\ Len(waiting') = Len(waiting) - 1
       /\ \A k \in 1 .. Len(waiting') : waiting'[k] = waiting[k + 1]
       /\ \/ cl[waiting[1].thread].st = "recv"
             /\ Answered(waiting[1].thread, waiting[1].handle)
          \/ cl[waiting[1].thread].st # "recv" /\ cl' = cl
       /\ \/ pc' = "spin" /\ poll_eps' = poll_eps
          \/ /\ pc' = pc
             /\ poll_eps' \in Seq(Threads) /\ Len(poll_eps') = Len(poll_eps) + 1
             /\ \A k \in 1 .. Len(poll_eps) : poll_eps'[k] = poll_eps[k]
             /\ poll_eps'[Len(poll_eps) + 1] = waiting[1].thread

(* ... and TCP's. *)
Bound(p, m) ==
    /\ sock[m].st = "listen"
    /\ \A h \in 1 .. Len(sock) : sock[h].st = "listen" => m <= h
    /\ \A h \in 1 .. Len(sock) : sock[h].peer # {p}
    /\ sock' \in Seq(SockSet) /\ Len(sock') = Len(sock)
    /\ \A h \in 1 .. Len(sock) : h # m => sock'[h] = sock[h]
    /\ sock'[m].st = "established" /\ sock'[m].peer = {p} /\ sock'[m].rx = sock[m].rx
    /\ peer' \in [Peers -> PeerSet]
    /\ \A q \in Peers : q # p => peer'[q] = peer[q]
    /\ peer'[p].st = "established" /\ peer'[p].sent = peer[p].sent
    /\ peer'[p].echoed = peer[p].echoed

TcpStep(p) ==
    \/ pc' = "spin" /\ UNCHANGED <<sock, peer>>
    \/ /\ \/ \E h \in 1 .. Len(sock) : sock[h].peer = {p}
          \/ \A h \in 1 .. Len(sock) : sock[h].st # "listen"
       /\ UNCHANGED <<sock, peer>>
    \/ pc' # "spin" /\ \E m \in 1 .. Len(sock) : Bound(p, m)

SynStep(p) == Taken("SYN", p) /\ TableStep /\ TcpStep(p)

DataStep(p) ==
    /\ Taken("DATA", p)
    /\ sock' \in Seq(SockSet) /\ Len(sock') = Len(sock)
    /\ \A h \in 1 .. Len(sock) :
          /\ sock'[h].st = sock[h].st /\ sock'[h].peer = sock[h].peer
          /\ sock[h].peer # {p} => sock'[h].rx = sock[h].rx
          /\ sock[h].peer = {p} => Len(sock'[h].rx) = Len(sock[h].rx) + 1
    /\ UNCHANGED <<pc, waiting, poll_eps, peer, cl>>

ResetStep(p) ==
    /\ Taken("RST", p)
    /\ sock' \in Seq(SockSet) /\ Len(sock') = Len(sock)
    /\ \A h \in 1 .. Len(sock) :
          /\ sock'[h].peer = sock[h].peer /\ sock'[h].rx = sock[h].rx
          /\ sock'[h].st = IF sock[h].peer = {p} THEN "closed" ELSE sock[h].st
    /\ UNCHANGED <<pc, waiting, poll_eps, peer, cl>>

(* Peer p, which was in state v, goes to state w and a frame comes in. *)
PeerStep(p, v, w, type) ==
    /\ peer[p].st = v /\ peer' \in [Peers -> PeerSet]
    /\ \A q \in Peers : q # p => peer'[q] = peer[q]
    /\ peer'[p].st = w /\ peer'[p].echoed = peer[p].echoed
    /\ peer'[p].sent = IF type = "DATA" THEN peer[p].sent + 1 ELSE peer[p].sent
    /\ \E f \in FrameSet : f.type = type /\ f.peer = p /\ frames' = Append(frames, f)
    /\ UNCHANGED <<pc, hand, waiting, poll_eps, sock, blocked, cl>>

IdleStep == UNCHANGED <<hand, waiting, poll_eps, sock, frames, peer, blocked, cl>>

ThreadMove(c) ==
    /\ (cl[c].st = "ready" /\ Moved(c, "sending")) \/ (cl[c].st = "sent" /\ Moved(c, "recv"))
    /\ UNCHANGED <<hand, waiting, poll_eps, sock, frames, peer, blocked>>

(* A SYN comes first to a thread that receives, unless it is early, and    *)
(* only after the first loop unless SYNs come during it.                   *)
ConnectStep(p) ==
    /\ PeerStep(p, "idle", "syn_sent", "SYN")
    /\ Len(waiting) > Cardinality(SynSent)
    /\ "sweep_syn" \notin faults => pc # "sweep"
    /\ "early_syn" \notin faults =>
          \A k \in 1 .. Len(waiting) : cl[waiting[k].thread].st = "recv"

RetransmitStep(p) ==
    PeerStep(p, "syn_sent", "syn_resent", "SYN") /\ "retransmit" \in faults

BurstStep(p) ==
    /\ PeerStep(p, "established", "established", "DATA")
    /\ "burst" \notin faults => peer[p].sent = peer[p].echoed

Steps ==
    \/ IdleStep \/ PurgeStep
    \/ \E c \in Threads :
          \/ ThreadMove(c) \/ ListenStep(c) \/ GetStep(c) \/ ParkStep(c) \/ SendStep(c)
          \/ CutStep(c) \/ TaskStep(c) \/ ReplyStep(c)
    \/ \E p \in Peers :
          \/ SynStep(p) \/ DataStep(p) \/ ResetStep(p) \/ ConnectStep(p)
          \/ RetransmitStep(p) \/ BurstStep(p)
          \/ PeerStep(p, "established", "reset", "RST")

LEMMA MovedTyped ==
  ASSUME cl \in [Threads -> ThreadSet], NEW c \in Threads, NEW v \in Sts,
         \/ cl' = [cl EXCEPT ![c].st = v]
         \/ \E w \in {"x", "."} : cl' = [cl EXCEPT ![c].st = v, ![c].data = w]
         \/ v = cl[c].st /\ \E w \in {"x", "."} : cl' = [cl EXCEPT ![c].data = w]
  PROVE  Moved(c, v)
  <1>1. CASE cl' = [cl EXCEPT ![c].st = v]
    BY <1>1 DEF Moved, ThreadSet
  <1>2. ASSUME NEW w \in {"x", "."}, cl' = [cl EXCEPT ![c].st = v, ![c].data = w]
        PROVE  Moved(c, v)
    BY <1>2 DEF Moved, ThreadSet
  <1>3. ASSUME NEW w \in {"x", "."}, v = cl[c].st, cl' = [cl EXCEPT ![c].data = w]
        PROVE  Moved(c, v)
    BY <1>3 DEF Moved, ThreadSet
  <1> QED
    BY <1>1, <1>2, <1>3

LEMMA ContinueTyped ==
  ASSUME NEW s \in ThreadSet
  PROVE  /\ Continue(s) \in ThreadSet /\ Continue(s).fd = s.fd /\ Continue(s).op # "Listen"
         /\ Continue(s).st = "ready" \/ (Continue(s).st = "done" /\ s.op = "Bye")
         /\ s.op = "Listen" => Continue(s).op = "Recv" /\ Continue(s).seen = s.seen
         /\ s.op = "Recv" =>
               Continue(s).op \in {"Send", "Bye"} /\ Continue(s).seen = s.seen + 1
         /\ s.op \in {"Send", "Bye"} =>
               (Continue(s).op = "Recv" \/ Continue(s).st = "done") /\ Continue(s).seen = s.seen
  <1>1. CASE s.op = "Listen"
    BY <1>1 DEF Continue, ThreadSet, Sts, Ops
  <1>2. CASE s.op = "Recv"
    <2>1. PICK o \in {"Send", "Bye"} :
             Continue(s) = [s EXCEPT !.st = "ready", !.seen = s.seen + 1, !.op = o]
      BY <1>2 DEF Continue
    <2>2. PICK n \in Nat : n = s.seen + 1
      BY DEF ThreadSet
    <2> DEFINE r == [s EXCEPT !.st = "ready", !.seen = n, !.op = o]
    <2>3. Continue(s) = r
      BY <2>1, <2>2
    <2>4. r \in ThreadSet /\ r.fd = s.fd /\ r.op = o /\ r.st = "ready" /\ r.seen = n
      BY DEF ThreadSet, Sts, Ops
    <2> HIDE DEF r
    <2> QED
      BY <1>2, <2>2, <2>3, <2>4
  <1>3. CASE s.op = "Send"
    BY <1>3 DEF Continue, ThreadSet, Sts, Ops
  <1>4. CASE s.op = "Bye"
    BY <1>4 DEF Continue, ThreadSet, Sts, Ops
  <1> QED
    BY <1>1, <1>2, <1>3, <1>4 DEF ThreadSet, Ops

LEMMA AnsweredTyped ==
  ASSUME cl \in [Threads -> ThreadSet], NEW c \in Threads, NEW h \in Nat,
         \/ h = cl[c].fd /\ cl' = [cl EXCEPT ![c] = Continue(cl[c])]
         \/ cl' = [cl EXCEPT ![c] = Continue([cl[c] EXCEPT !.fd = h])]
  PROVE  Answered(c, h)
  <1> DEFINE s == [cl[c] EXCEPT !.fd = h]
             r == Continue(s)
  <1>1. s \in ThreadSet /\ s.op = cl[c].op /\ s.fd = h /\ s.seen = cl[c].seen
    BY DEF ThreadSet
  <1>2. h = cl[c].fd => s = cl[c]
    BY DEF ThreadSet
  <1>3. cl' = [cl EXCEPT ![c] = r]
    BY <1>2
  <1> HIDE DEF s
  <1>4. /\ r \in ThreadSet /\ r.fd = s.fd /\ r.op # "Listen"
        /\ r.st = "ready" \/ (r.st = "done" /\ s.op = "Bye")
        /\ s.op = "Listen" => r.op = "Recv" /\ r.seen = s.seen
        /\ s.op = "Recv" => r.op \in {"Send", "Bye"} /\ r.seen = s.seen + 1
        /\ s.op \in {"Send", "Bye"} => (r.op = "Recv" \/ r.st = "done") /\ r.seen = s.seen
    BY <1>1, ContinueTyped
  <1> HIDE DEF r
  <1>5. cl' \in [Threads -> ThreadSet] /\ cl'[c] = r /\ \A x \in Threads : x # c => cl'[x] = cl[x]
    BY <1>3, <1>4
  <1> QED
    BY <1>1, <1>4, <1>5 DEF Answered

(* The sequences of Typed. *)
LEMMA TypedSeqs ==
  ASSUME Typed
  PROVE  /\ Len(sock) \in Nat /\ \A h \in 1 .. Len(sock) : sock[h] \in SockSet
         /\ Len(waiting) \in Nat /\ \A k \in 1 .. Len(waiting) : waiting[k] \in WaitSet
         /\ Len(blocked) \in Nat /\ \A k \in 1 .. Len(blocked) : blocked[k] \in TaskSet
         /\ Len(poll_eps) \in Nat /\ \A k \in 1 .. Len(poll_eps) : poll_eps[k] \in Threads
         /\ Len(frames) \in Nat /\ \A k \in 1 .. Len(frames) : frames[k] \in FrameSet
         /\ \A h \in 1 .. Len(sock) : sock[h].rx \in Seq({"x", "."}) /\ Len(sock[h].rx) \in Nat
  <1>1. /\ sock \in Seq(SockSet) /\ waiting \in Seq(WaitSet) /\ blocked \in Seq(TaskSet)
        /\ poll_eps \in Seq(Threads) /\ frames \in Seq(FrameSet)
    BY DEF Typed
  <1>2. /\ Len(sock) \in Nat /\ \A h \in 1 .. Len(sock) : sock[h] \in SockSet
        /\ Len(waiting) \in Nat /\ \A k \in 1 .. Len(waiting) : waiting[k] \in WaitSet
        /\ Len(blocked) \in Nat /\ \A k \in 1 .. Len(blocked) : blocked[k] \in TaskSet
        /\ Len(poll_eps) \in Nat /\ \A k \in 1 .. Len(poll_eps) : poll_eps[k] \in Threads
        /\ Len(frames) \in Nat /\ \A k \in 1 .. Len(frames) : frames[k] \in FrameSet
    BY <1>1, LenProperties, ElementOfSeq
  <1>3. \A h \in 1 .. Len(sock) : sock[h].rx \in Seq({"x", "."})
    BY <1>2 DEF SockSet
  <1> QED
    BY <1>2, <1>3, LenProperties

(* Typed is kept when a thread moves and nothing else does. *)
LEMMA TypedMoved ==
  ASSUME Typed, NEW c \in Threads, NEW v, Moved(c, v), Len(sock') >= Len(sock), Len(sock') \in Nat
  PROVE  /\ \A x \in Threads : cl'[x].fd <= Len(sock')
         /\ \A x \in Threads : cl'[x].fd = NoFd <=> cl'[x].op = "Listen"
         /\ \A x \in Threads : cl'[x].op = "Listen" => cl'[x].seen = 0
  <1>1. \A x \in Threads : cl'[x].fd = cl[x].fd /\ cl'[x].op = cl[x].op /\ cl'[x].seen = cl[x].seen
    BY DEF Moved
  <1>2. \A x \in Threads : cl[x].fd \in Nat /\ cl[x].fd <= Len(sock)
    BY DEF Typed, ThreadSet
  <1>3. Len(sock) \in Nat
    BY TypedSeqs
  <1>4. \A x \in Threads : cl'[x].fd <= Len(sock')
    <2> SUFFICES ASSUME NEW x \in Threads PROVE cl'[x].fd <= Len(sock')
      OBVIOUS
    <2>1. cl'[x].fd = cl[x].fd /\ cl[x].fd \in Nat /\ cl[x].fd <= Len(sock)
      BY <1>1, <1>2
    <2> QED
      BY <1>3, <2>1
  <1> QED
    BY <1>1, <1>4 DEF Typed

-----------------------------------------------------------------------------
(* The requests. *)

LEMMA ListenTyped ==
  ASSUME Typed, NEW c \in Threads, cl[c].st = "sending", ReqListen(c), pc = "sweep" \/ Polled(c)
  PROVE  ListenStep(c) /\ Typed'
  <1> DEFINE s == [st |-> "listen", peer |-> {}, rx |-> <<>>]
             w == [handle |-> Len(sock) + 1, thread |-> c]
  <1>1. Len(sock) \in Nat /\ Len(waiting) \in Nat /\ sock \in Seq(SockSet) /\ waiting \in Seq(WaitSet)
    BY TypedSeqs DEF Typed
  <1>2. s \in SockSet /\ s.st = "listen" /\ s.peer = {} /\ s.rx = <<>>
    BY EmptySeq DEF SockSet
  <1>3. w \in WaitSet /\ w.handle = Len(sock) + 1 /\ w.thread = c
    BY <1>1 DEF WaitSet
  <1>4. /\ sock' = Append(sock, s) /\ waiting' = Append(waiting, w) /\ cl[c].op = "Listen"
        /\ UNCHANGED <<hand, poll_eps, frames, peer, blocked>>
    BY DEF ReqListen
  <1>5. Moved(c, "sent")
    BY MovedTyped DEF ReqListen, Typed, Sts
  <1> HIDE DEF s, w
  <1>6. /\ sock' \in Seq(SockSet) /\ Len(sock') = Len(sock) + 1
        /\ \A h \in 1 .. Len(sock) : sock'[h] = sock[h]
        /\ sock'[Len(sock) + 1] = s
    BY <1>1, <1>2, <1>4, AppendProperties
  <1>7. /\ waiting' \in Seq(WaitSet) /\ Len(waiting') = Len(waiting) + 1
        /\ \A k \in 1 .. Len(waiting) : waiting'[k] = waiting[k]
        /\ waiting'[Len(waiting) + 1] = w
    BY <1>1, <1>3, <1>4, AppendProperties
  <1>8. ListenStep(c)
    BY <1>2, <1>3, <1>4, <1>5, <1>6, <1>7 DEF ListenStep
  <1>9. \A k \in 1 .. Len(waiting') : waiting'[k].handle <= Len(sock')
    <2>1. \A k \in 1 .. Len(waiting) : waiting[k].handle \in Nat /\ waiting[k].handle <= Len(sock)
      BY TypedSeqs DEF Typed, WaitSet
    <2>2. \A k \in 1 .. Len(waiting') : k \in 1 .. Len(waiting) \/ k = Len(waiting) + 1
      BY <1>1, <1>7
    <2> SUFFICES ASSUME NEW k \in 1 .. Len(waiting') PROVE waiting'[k].handle <= Len(sock')
      OBVIOUS
    <2>3. CASE k \in 1 .. Len(waiting)
      <3>1. waiting'[k].handle = waiting[k].handle
        BY <1>7, <2>3
      <3> QED
        BY <1>1, <1>6, <2>1, <2>3, <3>1
    <2>4. CASE k = Len(waiting) + 1
      <3>1. waiting'[k].handle = Len(sock) + 1
        BY <1>3, <1>7, <2>4
      <3> QED
        BY <1>1, <1>6, <3>1
    <2> QED
      BY <2>2, <2>3, <2>4
  <1>10. Len(sock') >= Len(sock) /\ Len(sock') \in Nat
    BY <1>1, <1>6
  <1>11. cl' \in [Threads -> ThreadSet]
    BY <1>5 DEF Moved
  <1> QED
    BY <1>4, <1>5, <1>6, <1>7, <1>8, <1>9, <1>10, <1>11, TypedMoved DEF Typed

(* Reading from socket g. *)
LEMMA DrainTyped ==
  ASSUME Typed, NEW g \in 1 .. Len(sock), sock[g].rx # <<>>,
         NEW r \in Seq({"x", "."}), sock' = [sock EXCEPT ![g].rx = r]
  PROVE  Drained(g, Len(r)) /\ Head(sock[g].rx) \in {"x", "."}
  <1> DEFINE s == [sock[g] EXCEPT !.rx = r]
  <1>1. sock \in Seq(SockSet) /\ sock[g] \in SockSet
    BY TypedSeqs DEF Typed
  <1>2. s \in SockSet /\ s.st = sock[g].st /\ s.peer = sock[g].peer /\ s.rx = r
    BY <1>1 DEF SockSet
  <1>3. sock' = [sock EXCEPT ![g] = s]
    OBVIOUS
  <1> HIDE DEF s
  <1>4. /\ sock' \in Seq(SockSet) /\ Len(sock') = Len(sock)
        /\ \A h \in 1 .. Len(sock) : sock'[h] = IF h = g THEN s ELSE sock[h]
    <2> DEFINE t == [sock EXCEPT ![g] = s]
    <2>1. /\ t \in Seq(SockSet) /\ Len(t) = Len(sock)
          /\ \A h \in 1 .. Len(sock) : t[h] = IF h = g THEN s ELSE sock[h]
      BY <1>1, <1>2, ExceptSeq
    <2> HIDE DEF t
    <2> QED
      BY <1>3, <2>1 DEF t
  <1>5. sock[g].rx \in Seq({"x", "."})
    BY <1>1 DEF SockSet
  <1>6. Head(sock[g].rx) \in {"x", "."}
    BY <1>5, HeadTailProperties
  <1> QED
    BY <1>2, <1>4, <1>6 DEF Drained

LEMMA RecvTyped ==
  ASSUME Typed, NEW c \in Threads, cl[c].st = "sending", ReqRecv(c),
         pc \in {"sweep", "polls"}, hand = NoOne
  PROVE  (GetStep(c) \/ ParkStep(c)) /\ Typed'
  <1> DEFINE h == cl[c].fd
  <1>1. cl[c].op = "Recv" /\ h \in 1 .. Len(sock)
    BY TypedSeqs DEF ReqRecv, Typed, ThreadSet, NoFd
  <1>2. UNCHANGED <<waiting, poll_eps, frames, peer>>
    BY DEF ReqRecv
  <1>3. CASE sock[h].rx # <<>>
    <2>1. /\ sock' = [sock EXCEPT ![h].rx = Tail(sock[h].rx)] /\ hand' = c /\ blocked' = blocked
          /\ cl' = [cl EXCEPT ![c].st = "sent", ![c].data = Head(sock[h].rx)]
      BY <1>3 DEF ReqRecv
    <2>2. sock[h].rx \in Seq({"x", "."}) /\ Len(sock[h].rx) \in Nat
      BY <1>1, TypedSeqs
    <2>3. Tail(sock[h].rx) \in Seq({"x", "."}) /\ Len(Tail(sock[h].rx)) = Len(sock[h].rx) - 1
      BY <1>3, <2>2, HeadTailProperties
    <2>4. Drained(h, Len(Tail(sock[h].rx))) /\ Head(sock[h].rx) \in {"x", "."}
      <3> HIDE DEF h
      <3> QED
        BY <1>1, <1>3, <2>1, <2>3, DrainTyped
    <2>5. Moved(c, "sent")
      BY <2>1, <2>4, MovedTyped DEF Typed, Sts
    <2>6. GetStep(c)
      BY <1>1, <1>2, <2>1, <2>3, <2>4, <2>5 DEF GetStep
    <2>7. /\ Len(sock') = Len(sock) /\ Len(sock') \in Nat /\ Len(sock') >= Len(sock)
          /\ sock' \in Seq(SockSet) /\ cl' \in [Threads -> ThreadSet]
      BY <2>4, <2>5, TypedSeqs DEF Drained, Moved
    <2>8. Typed'
      BY <1>2, <2>1, <2>5, <2>7, TypedMoved DEF Typed
    <2> QED
      BY <2>6, <2>8
  <1>4. CASE sock[h].rx = <<>>
    <2> DEFINE e == [thread |-> c, complete |-> FALSE]
    <2>1. /\ blocked' = Append(blocked, e) /\ hand' = hand /\ sock' = sock
          /\ cl' = [cl EXCEPT ![c].st = "sent"]
      BY <1>4 DEF ReqRecv
    <2>2. e \in TaskSet /\ e.thread = c /\ ~e.complete
      BY DEF TaskSet
    <2>3. blocked \in Seq(TaskSet)
      BY DEF Typed
    <2> HIDE DEF e
    <2>4. /\ blocked' \in Seq(TaskSet) /\ Len(blocked') = Len(blocked) + 1
          /\ \A k \in 1 .. Len(blocked) : blocked'[k] = blocked[k]
          /\ blocked'[Len(blocked) + 1] = e
      BY <2>1, <2>2, <2>3, AppendProperties
    <2>5. Moved(c, "sent")
      BY <2>1, MovedTyped DEF Typed, Sts
    <2>6. ParkStep(c)
      BY <1>1, <1>2, <2>1, <2>2, <2>4, <2>5 DEF ParkStep
    <2>7. Len(sock') \in Nat /\ Len(sock') >= Len(sock) /\ cl' \in [Threads -> ThreadSet]
      BY <2>1, <2>5, TypedSeqs DEF Moved
    <2>8. Typed'
      BY <1>2, <2>1, <2>4, <2>5, <2>7, TypedMoved DEF Typed
    <2> QED
      BY <2>6, <2>8
  <1> QED
    BY <1>3, <1>4

LEMMA SendTyped ==
  ASSUME Typed, NEW c \in Threads, cl[c].st = "sending", ReqSend(c), hand = NoOne
  PROVE  (SendStep(c) \/ CutStep(c)) /\ Typed'
  <1>1. /\ cl[c].op \in {"Send", "Bye"} /\ cl' = [cl EXCEPT ![c].st = "sent"]
        /\ UNCHANGED <<waiting, poll_eps, sock, frames, blocked>>
    BY DEF ReqSend
  <1>2. Moved(c, "sent")
    BY <1>1, MovedTyped DEF Typed, Sts
  <1>3. Len(sock') \in Nat /\ Len(sock') >= Len(sock) /\ cl' \in [Threads -> ThreadSet]
    BY <1>1, <1>2, TypedSeqs DEF Moved
  <1>0. PICK room \in {TRUE} \cup {"tx_full" \notin faults} :
           IF CanSend(cl[c].fd, room)
           THEN /\ hand' = c
                /\ peer' = [p \in Peers |-> IF sock[cl[c].fd].peer = {p}
                                            THEN [peer[p] EXCEPT !.echoed = @ + 1] ELSE peer[p]]
           ELSE hand' = hand /\ peer' = peer
    BY DEF ReqSend
  <1>4. CASE CanSend(cl[c].fd, room)
    <2>1. /\ hand' = c
          /\ peer' = [p \in Peers |-> IF sock[cl[c].fd].peer = {p}
                                      THEN [peer[p] EXCEPT !.echoed = @ + 1] ELSE peer[p]]
      BY <1>0, <1>4
    <2>2. \A p \in Peers : peer[p] \in PeerSet
      BY DEF Typed
    <2>3. \A p \in Peers :
             /\ peer'[p] \in PeerSet /\ peer'[p].st = peer[p].st /\ peer'[p].sent = peer[p].sent
             /\ peer'[p].echoed = IF sock[cl[c].fd].peer = {p} THEN peer[p].echoed + 1
                                                               ELSE peer[p].echoed
      BY <2>1, <2>2 DEF PeerSet
    <2>4. peer' \in [Peers -> PeerSet]
      BY <2>1, <2>3
    <2>5. SendStep(c)
      BY <1>1, <1>2, <2>1, <2>3, <2>4 DEF SendStep
    <2>6. Typed'
      BY <1>1, <1>2, <1>3, <2>1, <2>4, TypedMoved DEF Typed
    <2> QED
      BY <2>5, <2>6
  <1>5. CASE ~CanSend(cl[c].fd, room)
    <2>1. hand' = hand /\ peer' = peer
      BY <1>0, <1>5
    <2>4. sock[cl[c].fd].st # "established" \/ "tx_full" \in faults
      BY <1>5 DEF CanSend
    <2>2. CutStep(c)
      BY <1>1, <1>2, <2>1, <2>4 DEF CutStep
    <2>3. Typed'
      BY <1>1, <1>2, <1>3, <2>1, TypedMoved DEF Typed
    <2> QED
      BY <2>2, <2>3
  <1> QED
    BY <1>4, <1>5

LEMMA IdleTyped == Typed /\ IdleStep => Typed'
  BY DEF Typed, IdleStep

LEMMA NbRecvTyped ==
  ASSUME Typed, NEW c \in Threads, NbRecv(c), pc \in {"sweep", "polls"}, hand = NoOne,
         pc = "sweep" \/ Polled(c)
  PROVE  Steps /\ Typed'
  <1>1. CASE ntfn /\ NetInterrupt
    <2>1. IdleStep
      BY <1>1 DEF NetInterrupt, stack, IdleStep
    <2> QED
      BY <2>1, IdleTyped DEF Steps
  <1>2. CASE ~ntfn /\ cl[c].st = "sending" /\ ReqListen(c)
    BY <1>2, ListenTyped DEF Steps
  <1>3. CASE ~ntfn /\ cl[c].st = "sending" /\ ReqRecv(c)
    BY <1>3, RecvTyped DEF Steps
  <1>4. CASE ~ntfn /\ cl[c].st = "sending" /\ ReqSend(c)
    BY <1>4, SendTyped DEF Steps
  <1>5. CASE ~ntfn /\ cl[c].st # "sending"
    <2>1. IdleStep
      BY <1>5 DEF NbRecv, stack, IdleStep
    <2> QED
      BY <2>1, IdleTyped DEF Steps
  <1> QED
    BY <1>1, <1>2, <1>3, <1>4, <1>5 DEF NbRecv

LEMMA BlockedTaskTyped == ASSUME Typed, OrphanInv, BlockedTask PROVE Steps /\ Typed'
  <1>1. /\ pc = "tasks" /\ hand = NoOne /\ idx <= Len(blocked) /\ idx \in Nat \ {0}
        /\ UNCHANGED <<waiting, poll_eps, frames, peer>>
    BY DEF BlockedTask, Go, OrphanInv, TablesOk
  <1>2. idx \in 1 .. Len(blocked) /\ blocked[idx] \in TaskSet /\ blocked \in Seq(TaskSet)
    BY <1>1, TypedSeqs DEF Typed
  <1>3. PICK c \in Threads : c = blocked[idx].thread
    BY <1>2 DEF TaskSet
  <1> DEFINE h == cl[c].fd
  <1>4. h \in 1 .. Len(sock)
    <2>1. cl[c].op # "Listen"
      BY <1>2, <1>3 DEF OrphanInv, TablesOk
    <2> QED
      BY <2>1, TypedSeqs DEF Typed, ThreadSet, NoFd
  <1>5. CASE sock[h].rx # <<>>
    <2> DEFINE e == [blocked[idx] EXCEPT !.complete = TRUE]
    <2>1. /\ sock' = [sock EXCEPT ![h].rx = <<>>] /\ hand' = c
          /\ cl' = [cl EXCEPT ![c].data = Head(sock[h].rx)]
          /\ blocked' = [blocked EXCEPT ![idx] = e]
      BY <1>3, <1>5 DEF BlockedTask
    <2>2. <<>> \in Seq({"x", "."}) /\ Len(<<>>) = 0
      BY EmptySeq
    <2>3. Drained(h, 0) /\ Head(sock[h].rx) \in {"x", "."}
      <3> HIDE DEF h
      <3> QED
        BY <1>4, <1>5, <2>1, <2>2, DrainTyped
    <2>4. Moved(c, cl[c].st)
      <3>1. cl[c].st \in Sts /\ cl \in [Threads -> ThreadSet]
        BY DEF Typed, ThreadSet
      <3> QED
        BY <2>1, <2>3, <3>1, MovedTyped
    <2>5. e \in TaskSet /\ e.thread = blocked[idx].thread /\ e.complete
      BY <1>2 DEF TaskSet
    <2> HIDE DEF e
    <2>6. /\ blocked' \in Seq(TaskSet) /\ Len(blocked') = Len(blocked)
          /\ \A k \in 1 .. Len(blocked) : blocked'[k] = IF k = idx THEN e ELSE blocked[k]
      <3> DEFINE t == [blocked EXCEPT ![idx] = e]
      <3>1. /\ t \in Seq(TaskSet) /\ Len(t) = Len(blocked)
            /\ \A k \in 1 .. Len(blocked) : t[k] = IF k = idx THEN e ELSE blocked[k]
        BY <1>2, <2>5, ExceptSeq
      <3> HIDE DEF t
      <3> QED
        BY <2>1, <3>1 DEF t
    <2>7. TaskStep(c)
      BY <1>1, <1>2, <1>3, <2>1, <2>3, <2>4, <2>5, <2>6 DEF TaskStep
    <2>8. /\ Len(sock') = Len(sock) /\ Len(sock') \in Nat /\ Len(sock') >= Len(sock)
          /\ sock' \in Seq(SockSet) /\ cl' \in [Threads -> ThreadSet]
      BY <2>3, <2>4, TypedSeqs DEF Drained, Moved
    <2>9. Typed'
      BY <1>1, <2>1, <2>4, <2>6, <2>8, TypedMoved DEF Typed
    <2> QED
      BY <2>7, <2>9 DEF Steps
  <1>6. CASE sock[h].rx = <<>>
    <2>1. IdleStep
      BY <1>1, <1>3, <1>6 DEF BlockedTask, IdleStep
    <2> QED
      BY <2>1, IdleTyped DEF Steps
  <1> QED
    BY <1>5, <1>6

(* The purge keeps the pending tasks, each once: an increasing function    *)
(* from 1 .. n to a set of n elements is onto.                             *)
LEMMA TasksEndTyped == ASSUME Typed, TasksEnd PROVE Steps /\ Typed'
  <1> DEFINE n == Cardinality(Pending)
             b == blocked'
  <1>1. Len(blocked) \in Nat /\ blocked \in Seq(TaskSet) /\ DOMAIN blocked = 1 .. Len(blocked)
    BY LenProperties DEF Typed
  <1>2. Pending = {k \in 1 .. Len(blocked) : ~blocked[k].complete}
    BY <1>1 DEF Pending
  <1>3. IsFiniteSet(Pending) /\ n \in Nat /\ n <= Len(blocked)
    <2>1. IsFiniteSet(1 .. Len(blocked)) /\ Cardinality(1 .. Len(blocked)) = Len(blocked)
      BY <1>1, FS_Interval
    <2>2. Pending \in SUBSET (1 .. Len(blocked))
      BY <1>2
    <2> QED
      BY <2>1, <2>2, FS_Subset, FS_CardinalityType
  <1>4. PICK f \in [1 .. n -> Pending] :
           /\ \A i, j \in 1 .. n : i < j => f[i] < f[j]
           /\ blocked' = [i \in 1 .. n |-> blocked[f[i]]]
    BY DEF TasksEnd
  <1>5. UNCHANGED <<hand, waiting, poll_eps, sock, frames, peer, cl>>
    BY DEF TasksEnd, stack
  <1> HIDE DEF n
  <1>6. \A i \in 1 .. n : f[i] \in Pending /\ f[i] \in 1 .. Len(blocked) /\ b[i] = blocked[f[i]]
    BY <1>2, <1>4
  <1>7. \A i, j \in 1 .. n : f[i] = f[j] => i = j
    <2> SUFFICES ASSUME NEW i \in 1 .. n, NEW j \in 1 .. n, f[i] = f[j], i < j PROVE FALSE
      BY <1>3
    <2>1. f[i] < f[j] /\ f[i] \in Nat /\ f[j] \in Nat
      BY <1>4, <1>6
    <2> QED
      BY <2>1
  <1>8. \A k \in Pending : \E i \in 1 .. n : f[i] = k
    <2>1. f \in Injection(1 .. n, Pending)
      BY <1>4, <1>7 DEF Injection, IsInjective
    <2>2. Cardinality(1 .. n) = n
      BY <1>3, FS_Interval
    <2>3. f \in Surjection(1 .. n, Pending)
      BY <1>3, <2>1, <2>2, FS_Injection DEF n
    <2> QED
      BY <2>3 DEF Surjection
  <1>9. b \in Seq(TaskSet) /\ Len(b) = n
    <2>1. \A k \in 1 .. Len(blocked) : blocked[k] \in TaskSet
      BY TypedSeqs
    <2>2. b \in [1 .. n -> TaskSet]
      BY <1>4, <1>6, <2>1
    <2> HIDE DEF b
    <2>3. Seq(TaskSet) = UNION {[1 .. m -> TaskSet] : m \in Nat}
      BY SeqDef
    <2>4. b \in Seq(TaskSet)
      BY <1>3, <2>2, <2>3, Zenon
    <2> QED
      BY <1>3, <2>2, <2>4, LenProperties
  <1>10. \A i \in 1 .. n : ~b[i].complete
    BY <1>2, <1>6
  <1>11. \A k \in 1 .. Len(blocked) : ~blocked[k].complete => \E i \in 1 .. n : b[i] = blocked[k]
    <2> SUFFICES ASSUME NEW k \in 1 .. Len(blocked), ~blocked[k].complete
                 PROVE  \E i \in 1 .. n : b[i] = blocked[k]
      OBVIOUS
    <2>1. PICK i \in 1 .. n : f[i] = k
      BY <1>2, <1>8
    <2> QED
      BY <1>6, <2>1
  <1>12. (\A i, j \in 1 .. Len(blocked) : blocked[i].thread = blocked[j].thread => i = j) =>
            \A i, j \in 1 .. n : b[i].thread = b[j].thread => i = j
    <2> SUFFICES ASSUME \A i, j \in 1 .. Len(blocked) :
                           blocked[i].thread = blocked[j].thread => i = j,
                        NEW i \in 1 .. n, NEW j \in 1 .. n, b[i].thread = b[j].thread
                 PROVE  i = j
      OBVIOUS
    <2>1. f[i] = f[j]
      BY <1>6
    <2> QED
      BY <1>7, <2>1
  <1> HIDE DEF b
  <1>13. /\ b \in Seq(TaskSet) /\ Len(b) <= Len(blocked)
         /\ \A i \in 1 .. Len(b) : ~b[i].complete
         /\ \A i \in 1 .. Len(b) : \E k \in 1 .. Len(blocked) : b[i] = blocked[k]
         /\ \A k \in 1 .. Len(blocked) :
               ~blocked[k].complete => \E i \in 1 .. Len(b) : b[i] = blocked[k]
         /\ (\A i, j \in 1 .. Len(blocked) : blocked[i].thread = blocked[j].thread => i = j) =>
               \A i, j \in 1 .. Len(b) : b[i].thread = b[j].thread => i = j
    BY <1>3, <1>6, <1>9, <1>10, <1>11, <1>12
  <1>14. PurgeStep
    BY <1>5, <1>13 DEF b, PurgeStep
  <1>15. blocked' \in Seq(TaskSet)
    BY <1>9 DEF b
  <1>16. Typed'
    BY <1>5, <1>15 DEF Typed
  <1> QED
    BY <1>14, <1>16 DEF Steps

(* Typed is kept when a thread has its answer. *)
LEMMA TypedAnswered ==
  ASSUME Typed, NEW c \in Threads, NEW h \in 1 .. Len(sock), Answered(c, h), Len(sock') = Len(sock)
  PROVE  /\ \A x \in Threads : cl'[x].fd <= Len(sock')
         /\ \A x \in Threads : cl'[x].fd = NoFd <=> cl'[x].op = "Listen"
         /\ \A x \in Threads : cl'[x].op = "Listen" => cl'[x].seen = 0
  <1>1. Len(sock) \in Nat /\ h \in Nat /\ h # 0 /\ h <= Len(sock)
    BY TypedSeqs
  <1>2. \A x \in Threads : cl'[x] = cl[x] \/ (x = c /\ cl'[x].fd = h /\ cl'[x].op # "Listen")
    BY DEF Answered
  <1> QED
    BY <1>1, <1>2 DEF Typed, NoFd

LEMMA ReplyTyped == ASSUME Typed, OrphanInv, Reply PROVE Steps /\ Typed'
  <1>1. /\ hand # NoOne /\ hand' = NoOne /\ cl[hand].st = "recv"
        /\ cl' = [cl EXCEPT ![hand] = Continue(cl[hand])]
        /\ UNCHANGED <<waiting, poll_eps, sock, frames, peer, blocked>>
    BY DEF Reply, stack
  <1>2. PICK c \in Threads : c = hand /\ cl[c].op # "Listen"
    BY <1>1 DEF OrphanInv, TablesOk
  <1>3. cl[c].fd \in 1 .. Len(sock) /\ cl[c].fd \in Nat
    BY <1>2, TypedSeqs DEF Typed, ThreadSet, NoFd
  <1>4. Answered(c, cl[c].fd)
    BY <1>1, <1>2, <1>3, AnsweredTyped DEF Typed
  <1>5. ReplyStep(c)
    BY <1>1, <1>2, <1>4 DEF ReplyStep
  <1>6. cl' \in [Threads -> ThreadSet]
    BY <1>4 DEF Answered
  <1>7. Typed'
    BY <1>1, <1>3, <1>4, <1>6, TypedAnswered DEF Typed
  <1> QED
    BY <1>5, <1>7 DEF Steps

-----------------------------------------------------------------------------
(* The frames. *)

LEMMA TakenTyped ==
  ASSUME Typed, NEW type, PollFrame(type)
  PROVE  /\ Head(frames).peer \in Peers /\ Taken(type, Head(frames).peer)
         /\ type = "DATA" => Head(frames).byte \in {"x", "."}
  <1>1. /\ frames # <<>> /\ Head(frames).type = type /\ frames' = Tail(frames) /\ pc # "spin"
        /\ UNCHANGED <<hand, blocked>> /\ frames \in Seq(FrameSet)
    BY DEF PollFrame, Typed
  <1>2. Head(frames) \in FrameSet /\ Tail(frames) \in Seq(FrameSet)
    BY <1>1, HeadTailProperties
  <1>3. Head(frames).peer \in Peers /\ (type = "DATA" => Head(frames).byte \in {"x", "."})
    BY <1>1, <1>2 DEF FrameSet
  <1> QED
    BY <1>1, <1>2, <1>3 DEF Taken

(* A socket is replaced by one of the same kind; DATA and RST. *)
LEMMA MappedSeq ==
  ASSUME NEW S, NEW s \in Seq(S), NEW t, t = [h \in DOMAIN s |-> t[h]],
         \A h \in 1 .. Len(s) : t[h] \in S
  PROVE  t \in Seq(S) /\ Len(t) = Len(s)
  <1>1. DOMAIN s = 1 .. Len(s) /\ Len(s) \in Nat
    BY LenProperties
  <1>2. t \in [1 .. Len(s) -> S]
    BY <1>1
  <1>3. Seq(S) = UNION {[1 .. m -> S] : m \in Nat}
    BY SeqDef
  <1>4. t \in Seq(S)
    BY <1>1, <1>2, <1>3, Zenon
  <1> QED
    BY <1>1, <1>2, <1>4, LenProperties

LEMMA DataTyped == ASSUME Typed, PollData PROVE Steps /\ Typed'
  <1> DEFINE p == Head(frames).peer
             b == Head(frames).byte
  <1>1. p \in Peers /\ Taken("DATA", p) /\ b \in {"x", "."}
    BY TakenTyped DEF PollData
  <1>2. /\ sock' = [h \in DOMAIN sock |-> IF sock[h].peer = {p}
                        THEN [sock[h] EXCEPT !.rx = Append(@, b)] ELSE sock[h]]
        /\ UNCHANGED <<pc, waiting, poll_eps, peer, cl>>
    BY DEF PollData
  <1> HIDE DEF p, b
  <1>3. sock \in Seq(SockSet) /\ DOMAIN sock = 1 .. Len(sock)
    BY LenProperties DEF Typed
  <1>4. ASSUME NEW h \in 1 .. Len(sock)
        PROVE  /\ sock'[h] \in SockSet /\ sock'[h].st = sock[h].st /\ sock'[h].peer = sock[h].peer
               /\ sock[h].peer # {p} => sock'[h].rx = sock[h].rx
               /\ sock[h].peer = {p} => Len(sock'[h].rx) = Len(sock[h].rx) + 1
    <2>1. sock[h] \in SockSet /\ sock[h].rx \in Seq({"x", "."})
      BY <1>4, TypedSeqs
    <2>2. CASE sock[h].peer # {p}
      BY <1>2, <1>3, <1>4, <2>1, <2>2
    <2>3. CASE sock[h].peer = {p}
      <3> DEFINE r == Append(sock[h].rx, b)
      <3>1. r \in Seq({"x", "."}) /\ Len(r) = Len(sock[h].rx) + 1
        BY <1>1, <2>1, AppendProperties
      <3>2. sock'[h] = [sock[h] EXCEPT !.rx = r]
        BY <1>2, <1>3, <1>4, <2>3
      <3> HIDE DEF r
      <3>3. sock'[h] \in SockSet /\ sock'[h].rx = r /\ sock'[h].st = sock[h].st
            /\ sock'[h].peer = sock[h].peer
        BY <2>1, <3>1, <3>2 DEF SockSet
      <3> QED
        BY <2>3, <3>1, <3>3
    <2> QED
      BY <2>2, <2>3
  <1>5. sock' \in Seq(SockSet) /\ Len(sock') = Len(sock)
    <2>1. sock' = [h \in DOMAIN sock |-> sock'[h]]
      BY <1>2
    <2> QED
      BY <1>3, <1>4, <2>1, MappedSeq
  <1>6. DataStep(p)
    BY <1>1, <1>2, <1>4, <1>5 DEF DataStep
  <1>7. Typed'
    BY <1>1, <1>2, <1>5 DEF Typed, Taken
  <1> QED
    BY <1>1, <1>6, <1>7 DEF Steps

LEMMA ResetTyped == ASSUME Typed, PollReset PROVE Steps /\ Typed'
  <1> DEFINE p == Head(frames).peer
  <1>1. p \in Peers /\ Taken("RST", p)
    BY TakenTyped DEF PollReset
  <1>2. /\ sock' = [h \in DOMAIN sock |-> IF sock[h].peer = {p}
                        THEN [sock[h] EXCEPT !.st = "closed"] ELSE sock[h]]
        /\ UNCHANGED <<pc, waiting, poll_eps, peer, cl>>
    BY DEF PollReset
  <1> HIDE DEF p
  <1>3. sock \in Seq(SockSet) /\ DOMAIN sock = 1 .. Len(sock)
    BY LenProperties DEF Typed
  <1>4. ASSUME NEW h \in 1 .. Len(sock)
        PROVE  /\ sock'[h] \in SockSet /\ sock'[h].rx = sock[h].rx /\ sock'[h].peer = sock[h].peer
               /\ sock'[h].st = IF sock[h].peer = {p} THEN "closed" ELSE sock[h].st
    <2>1. sock[h] \in SockSet
      BY <1>4, TypedSeqs
    <2> QED
      BY <1>2, <1>3, <1>4, <2>1 DEF SockSet
  <1>5. sock' \in Seq(SockSet) /\ Len(sock') = Len(sock)
    <2>1. sock' = [h \in DOMAIN sock |-> sock'[h]]
      BY <1>2
    <2> QED
      BY <1>3, <1>4, <2>1, MappedSeq
  <1>6. ResetStep(p)
    BY <1>1, <1>2, <1>4, <1>5 DEF ResetStep
  <1>7. Typed'
    BY <1>1, <1>2, <1>5 DEF Typed, Taken
  <1> QED
    BY <1>1, <1>6, <1>7 DEF Steps

(* A set of naturals that is not empty has a least element. *)
LEMMA LeastOf ==
  ASSUME NEW T \in SUBSET Nat, T # {}
  PROVE  Min(T) \in T /\ \A y \in T : Min(T) <= y
  <1> DEFINE R == {ss \in Nat \X Nat : ss[1] < ss[2]}
  <1>1. IsWellFoundedOn(R, Nat)
    BY NatLessThanWellFounded DEF OpToRel
  <1>2. \E x \in T : \A y \in T : ~(<<y, x>> \in R)
    <2> HIDE DEF R
    <2> QED
      BY <1>1, WFMin
  <1>3. ASSUME NEW x \in T, NEW y \in T, ~(<<y, x>> \in R) PROVE x <= y
    BY <1>3
  <1>4. \E x \in T : \A y \in T : x <= y
    BY <1>2, <1>3
  <1> QED
    BY <1>4 DEF Min

LEMMA TcpTyped ==
  ASSUME Typed, NEW p \in Peers, IF pc' = "spin" THEN UNCHANGED <<sock, peer>> ELSE TcpSyn(p)
  PROVE  TcpStep(p) /\ sock' \in Seq(SockSet) /\ Len(sock') = Len(sock) /\ peer' \in [Peers -> PeerSet]
  <1>1. /\ sock \in Seq(SockSet) /\ peer \in [Peers -> PeerSet] /\ Len(sock) \in Nat
        /\ DOMAIN sock = 1 .. Len(sock)
    BY LenProperties DEF Typed
  <1>2. CASE pc' = "spin"
    BY <1>1, <1>2 DEF TcpStep
  <1>3. CASE pc' # "spin" /\ (SockOf(p) # {} \/ Listening = {})
    <2>1. UNCHANGED <<sock, peer>>
      BY <1>3 DEF TcpSyn
    <2>2. \/ \E h \in 1 .. Len(sock) : sock[h].peer = {p}
          \/ \A h \in 1 .. Len(sock) : sock[h].st # "listen"
      BY <1>1, <1>3 DEF SockOf, Listening
    <2> QED
      BY <1>1, <2>1, <2>2 DEF TcpStep
  <1>4. CASE pc' # "spin" /\ SockOf(p) = {} /\ Listening # {}
    <2> DEFINE m == Min(Listening)
               s == [sock[m] EXCEPT !.peer = {p}, !.st = "established"]
    <2>1. m \in Listening /\ \A h \in Listening : m <= h
      <3>1. Listening \in SUBSET Nat
        BY <1>1 DEF Listening
      <3> QED
        BY <1>4, <3>1, LeastOf
    <2>2. sock' = [sock EXCEPT ![m] = s] /\ peer' = [peer EXCEPT ![p].st = "established"]
      BY <1>4 DEF TcpSyn
    <2> HIDE DEF m
    <2>3. /\ m \in 1 .. Len(sock) /\ sock[m].st = "listen"
          /\ \A h \in 1 .. Len(sock) : sock[h].st = "listen" => m <= h
          /\ \A h \in 1 .. Len(sock) : sock[h].peer # {p}
      BY <1>1, <1>4, <2>1 DEF Listening, SockOf
    <2>4. sock[m] \in SockSet
      BY <2>3, TypedSeqs
    <2>5. s \in SockSet /\ s.st = "established" /\ s.peer = {p} /\ s.rx = sock[m].rx
      BY <2>4 DEF SockSet
    <2> HIDE DEF s
    <2>6. /\ sock' \in Seq(SockSet) /\ Len(sock') = Len(sock)
          /\ \A h \in 1 .. Len(sock) : sock'[h] = IF h = m THEN s ELSE sock[h]
      <3> DEFINE t == [sock EXCEPT ![m] = s]
      <3>1. /\ t \in Seq(SockSet) /\ Len(t) = Len(sock)
            /\ \A h \in 1 .. Len(sock) : t[h] = IF h = m THEN s ELSE sock[h]
        BY <1>1, <2>3, <2>5, ExceptSeq
      <3> HIDE DEF t
      <3> QED
        BY <2>2, <3>1 DEF t
    <2>7. /\ peer' \in [Peers -> PeerSet]
          /\ \A q \in Peers : q # p => peer'[q] = peer[q]
          /\ peer'[p].st = "established" /\ peer'[p].sent = peer[p].sent
          /\ peer'[p].echoed = peer[p].echoed
      BY <1>1, <2>2 DEF PeerSet
    <2>8. Bound(p, m)
      BY <2>3, <2>5, <2>6, <2>7 DEF Bound
    <2> QED
      BY <1>4, <2>3, <2>6, <2>7, <2>8 DEF TcpStep
  <1> QED
    BY <1>2, <1>3, <1>4

LEMMA SynTyped == ASSUME Typed, PollSyn PROVE Steps /\ Typed'
  <1> DEFINE p == Head(frames).peer
             l == Head(waiting)
  <1>1. p \in Peers /\ Taken("SYN", p)
    BY TakenTyped DEF PollSyn
  <1>2. TcpStep(p) /\ sock' \in Seq(SockSet) /\ Len(sock') = Len(sock) /\ peer' \in [Peers -> PeerSet]
    BY <1>1, TcpTyped DEF PollSyn
  <1> HIDE DEF p
  <1>3. CASE waiting = <<>> \/ Len(waiting) >= QueueSize
    <2>1. UNCHANGED <<waiting, cl, pc, poll_eps>>
      BY <1>3 DEF PollSyn
    <2>2. TableStep
      BY <1>3, <2>1 DEF TableStep
    <2>3. Typed'
      BY <1>1, <1>2, <2>1 DEF Typed, Taken
    <2> QED
      BY <1>1, <1>2, <2>2, <2>3 DEF Steps, SynStep
  <1>4. CASE waiting # <<>> /\ Len(waiting) < QueueSize
    <2>1. IncomingSyn
      <3>1. Len(waiting) \in Nat /\ QueueSize \in Nat
        BY TypedSeqs, SyncAssumption
      <3> QED
        BY <1>4, <3>1 DEF PollSyn
    <2>2. waiting \in Seq(WaitSet) /\ Len(waiting) \in Nat /\ Len(waiting) # 0
      BY <1>4, TypedSeqs, EmptySeq DEF Typed
    <2>3. l = waiting[1] /\ l \in WaitSet /\ l.handle <= Len(sock)
      BY <1>4, <2>2, TypedSeqs DEF Typed
    <2>4. /\ waiting' = Tail(waiting)
          /\ cl' = [cl EXCEPT ![l.thread] = IF cl[l.thread].st = "recv"
                                THEN Continue([cl[l.thread] EXCEPT !.fd = l.handle])
                                ELSE cl[l.thread]]
          /\ \/ pc' = "spin" /\ poll_eps' = poll_eps
             \/ poll_eps' = Append(poll_eps, l.thread) /\ pc' = pc
      BY <2>1 DEF IncomingSyn
    <2> HIDE DEF l
    <2>5. /\ waiting' \in Seq(WaitSet) /\ Len(waiting') = Len(waiting) - 1
          /\ \A k \in 1 .. Len(waiting') : waiting'[k] = waiting[k + 1]
      BY <1>4, <2>2, <2>4, HeadTailProperties
    <2>6. PICK c \in Threads, h \in 1 .. Len(sock) : c = l.thread /\ h = l.handle
      BY <2>3, TypedSeqs DEF WaitSet
    <2>7. \/ cl[c].st = "recv" /\ Answered(c, h)
          \/ cl[c].st # "recv" /\ cl' = cl
      <3>1. cl \in [Threads -> ThreadSet] /\ h \in Nat
        BY DEF Typed
      <3>2. CASE cl[c].st = "recv"
        BY <2>4, <2>6, <3>1, <3>2, AnsweredTyped
      <3>3. CASE cl[c].st # "recv"
        BY <2>4, <2>6, <3>1, <3>3
      <3> QED
        BY <3>2, <3>3
    <2>8. poll_eps' \in Seq(Threads) /\
          \/ pc' = "spin" /\ poll_eps' = poll_eps
          \/ /\ pc' = pc /\ Len(poll_eps') = Len(poll_eps) + 1
             /\ \A k \in 1 .. Len(poll_eps) : poll_eps'[k] = poll_eps[k]
             /\ poll_eps'[Len(poll_eps) + 1] = c
      <3>1. poll_eps \in Seq(Threads)
        BY DEF Typed
      <3>2. CASE pc' = "spin" /\ poll_eps' = poll_eps
        BY <3>1, <3>2
      <3>3. CASE poll_eps' = Append(poll_eps, l.thread) /\ pc' = pc
        <4>1. poll_eps' = Append(poll_eps, c) /\ pc' = pc
          BY <2>6, <3>3
        <4> QED
          BY <3>1, <4>1, AppendProperties
      <3> QED
        BY <2>4, <3>2, <3>3
    <2>9. TableStep
      BY <1>4, <2>3, <2>5, <2>6, <2>7, <2>8 DEF TableStep
    <2>10. \A k \in 1 .. Len(waiting') : waiting'[k].handle <= Len(sock')
      <3>1. \A k \in 1 .. Len(waiting') : k + 1 \in 1 .. Len(waiting)
        BY <2>2, <2>5
      <3> QED
        BY <1>2, <2>5, <3>1 DEF Typed
    <2>11. /\ cl' \in [Threads -> ThreadSet]
           /\ \A x \in Threads : cl'[x].fd <= Len(sock')
           /\ \A x \in Threads : cl'[x].fd = NoFd <=> cl'[x].op = "Listen"
           /\ \A x \in Threads : cl'[x].op = "Listen" => cl'[x].seen = 0
      <3>1. CASE cl' = cl
        BY <1>2, <3>1 DEF Typed
      <3>2. CASE Answered(c, h)
        BY <1>2, <3>2, TypedAnswered DEF Answered
      <3> QED
        BY <2>7, <3>1, <3>2
    <2>12. Typed'
      BY <1>1, <1>2, <2>5, <2>8, <2>10, <2>11 DEF Typed, Taken
    <2> QED
      BY <1>1, <1>2, <2>9, <2>12 DEF Steps, SynStep
  <1>5. Len(waiting) \in Nat /\ QueueSize \in Nat
    BY TypedSeqs, SyncAssumption
  <1> QED
    BY <1>3, <1>4, <1>5

-----------------------------------------------------------------------------
(* The peers and the threads. *)

LEMMA PeerTyped ==
  ASSUME Typed, NEW p \in Peers, NEW f \in FrameSet, Arrive(f), f.peer = p,
         NEW w \in {"syn_sent", "syn_resent", "established", "reset"},
         IF f.type = "DATA"
         THEN peer[p].st = w /\ peer' = [peer EXCEPT ![p].sent = @ + 1]
         ELSE peer' = [peer EXCEPT ![p].st = w]
  PROVE  PeerStep(p, peer[p].st, w, f.type) /\ Typed'
  <1>1. frames' = Append(frames, f) /\ UNCHANGED <<pc, hand, waiting, poll_eps, sock, blocked, cl>>
    BY DEF Arrive, server
  <1>2. frames \in Seq(FrameSet) /\ peer \in [Peers -> PeerSet]
    BY DEF Typed
  <1>3. frames' \in Seq(FrameSet)
    BY <1>1, <1>2, AppendProperties
  <1>4. /\ peer' \in [Peers -> PeerSet]
        /\ \A q \in Peers : q # p => peer'[q] = peer[q]
        /\ peer'[p].st = w /\ peer'[p].echoed = peer[p].echoed
        /\ peer'[p].sent = IF f.type = "DATA" THEN peer[p].sent + 1 ELSE peer[p].sent
    <2>1. CASE f.type = "DATA"
      <3>1. PICK n \in Nat : n = peer[p].sent + 1
        BY <1>2 DEF PeerSet
      <3> DEFINE r == [peer[p] EXCEPT !.sent = n]
      <3>2. peer' = [peer EXCEPT ![p] = r] /\ peer[p].st = w
        BY <2>1, <3>1
      <3>3. peer[p] \in PeerSet
        BY <1>2
      <3>4. r \in PeerSet /\ r.st = peer[p].st /\ r.echoed = peer[p].echoed /\ r.sent = n
        BY <3>3 DEF PeerSet
      <3> HIDE DEF r
      <3>5. peer' \in [Peers -> PeerSet] /\ peer'[p] = r /\ \A q \in Peers : q # p => peer'[q] = peer[q]
        BY <1>2, <3>2, <3>4
      <3> QED
        BY <2>1, <3>1, <3>2, <3>4, <3>5
    <2>2. CASE f.type # "DATA"
      BY SMTT(30), <1>2, <2>2 DEF PeerSet
    <2> QED
      BY <2>1, <2>2
  <1>5. PeerStep(p, peer[p].st, w, f.type)
    BY <1>1, <1>4 DEF PeerStep
  <1>6. Typed'
    BY <1>1, <1>3, <1>4 DEF Typed
  <1> QED
    BY <1>5, <1>6

LEMMA NetworkTyped == ASSUME Typed, NEW p \in Peers, Network(p) PROVE Steps /\ Typed'
  <1>1. CASE PeerConnect(p)
    <2> DEFINE f == Syn(p)
    <2>1. f \in FrameSet /\ f.type = "SYN" /\ f.peer = p
      BY DEF FrameSet, Syn, Timely
    <2>2. Arrive(f) /\ peer' = [peer EXCEPT ![p].st = "syn_sent"] /\ peer[p].st = "idle"
      BY <1>1 DEF PeerConnect
    <2> HIDE DEF f
    <2>3. PeerStep(p, "idle", "syn_sent", "SYN") /\ Typed'
      BY <2>1, <2>2, PeerTyped
    <2>4. DOMAIN waiting = 1 .. Len(waiting)
      BY LenProperties DEF Typed
    <2>5. ConnectStep(p)
      BY <1>1, <2>3, <2>4 DEF PeerConnect, ConnectStep, SynSent
    <2> QED
      BY <2>3, <2>5 DEF Steps
  <1>2. CASE PeerRetransmit(p)
    <2> DEFINE f == Syn(p)
    <2>1. f \in FrameSet /\ f.type = "SYN" /\ f.peer = p
      BY DEF FrameSet, Syn, Timely
    <2>2. Arrive(f) /\ peer' = [peer EXCEPT ![p].st = "syn_resent"] /\ peer[p].st = "syn_sent"
          /\ "retransmit" \in faults
      BY <1>2 DEF PeerRetransmit
    <2> HIDE DEF f
    <2>3. PeerStep(p, "syn_sent", "syn_resent", "SYN") /\ Typed'
      BY <2>1, <2>2, PeerTyped
    <2> QED
      BY <2>2, <2>3 DEF Steps, RetransmitStep
  <1>3. CASE PeerData(p)
    <2> DEFINE f == [type |-> "DATA", peer |-> p,
                     byte |-> IF peer[p].sent + 1 = MaxData THEN "." ELSE "x"]
    <2>1. f \in FrameSet /\ f.type = "DATA" /\ f.peer = p
      BY DEF FrameSet
    <2>2. /\ Arrive(f) /\ peer' = [peer EXCEPT ![p].sent = @ + 1] /\ peer[p].st = "established"
          /\ "burst" \notin faults => peer[p].sent = peer[p].echoed
      BY <1>3 DEF PeerData
    <2> HIDE DEF f
    <2>3. PeerStep(p, "established", "established", "DATA") /\ Typed'
      BY <2>1, <2>2, PeerTyped
    <2> QED
      BY <2>2, <2>3 DEF Steps, BurstStep
  <1>4. CASE PeerReset(p)
    <2> DEFINE f == [type |-> "RST", peer |-> p]
    <2>1. f \in FrameSet /\ f.type = "RST" /\ f.peer = p
      BY DEF FrameSet
    <2>2. Arrive(f) /\ peer' = [peer EXCEPT ![p].st = "reset"] /\ peer[p].st = "established"
      BY <1>4 DEF PeerReset
    <2> HIDE DEF f
    <2>3. PeerStep(p, "established", "reset", "RST") /\ Typed'
      BY <2>1, <2>2, PeerTyped
    <2> QED
      BY <2>3 DEF Steps
  <1> QED
    BY <1>1, <1>2, <1>3, <1>4 DEF Network

LEMMA ClientTyped == ASSUME Typed, ClientThreads PROVE Steps /\ Typed'
  <1>1. PICK c \in Threads : ClientSend(c) \/ ClientRecv(c)
    BY DEF ClientThreads
  <1>2. UNCHANGED <<hand, waiting, poll_eps, sock, frames, peer, blocked>>
    BY <1>1 DEF ClientSend, ClientRecv, stack
  <1>3. (cl[c].st = "ready" /\ Moved(c, "sending")) \/ (cl[c].st = "sent" /\ Moved(c, "recv"))
    <2>1. CASE ClientSend(c)
      BY <2>1, MovedTyped DEF ClientSend, Typed, Sts
    <2>2. CASE ClientRecv(c)
      BY <2>2, MovedTyped DEF ClientRecv, Typed, Sts
    <2> QED
      BY <1>1, <2>1, <2>2
  <1>4. ThreadMove(c)
    BY <1>2, <1>3 DEF ThreadMove
  <1>5. Len(sock') >= Len(sock) /\ Len(sock') \in Nat /\ cl' \in [Threads -> ThreadSet]
    BY <1>2, <1>3, TypedSeqs DEF Moved
  <1>6. Typed'
    BY <1>2, <1>3, <1>5, TypedMoved DEF Typed
  <1> QED
    BY <1>4, <1>6 DEF Steps

(* Every step of the system is one of Steps; the first loop is never       *)
(* entered again, and a server that spins does so for ever.                *)
LEMMA StepsTyped ==
  ASSUME Typed, OrphanInv, [Next]_vars
  PROVE  /\ Steps /\ Typed' /\ faults' = faults
         /\ pc' = "sweep" => pc = "sweep"
         /\ pc = "spin" => pc' = "spin"
  <1>1. faults' = faults
    BY DEF Next, ServerThread, ClientThreads, Network, vars
  <1>2. (pc' = "sweep" => pc = "sweep") /\ (pc = "spin" => pc' = "spin")
    <2>1. CASE ServerThread
      BY <2>1 DEF ServerThread, Sweep, SweepEnd, PollNtfn, PollEps, PollEpsEnd, LockEps,
                  BlockedTask, TasksEnd, Reply, Spin, PollSyn, PollData, PollReset, PollEnd,
                  IrqAck, PollFrame, IncomingSyn, Go, GoOn, server
    <2>2. CASE ~ServerThread
      <3>1. pc' = pc
        BY <2>2 DEF Next, ClientThreads, ClientSend, ClientRecv, Network, PeerConnect,
                    PeerRetransmit, PeerData, PeerReset, Arrive, server, vars
      <3> QED
        BY <3>1
    <2> QED
      BY SMTT(30), <2>1, <2>2
  <1>3. Steps /\ Typed'
    <2>1. CASE Sweep
      <3>1. idx \in Threads /\ pc = "sweep" /\ hand = NoOne /\ NbRecv(idx)
        BY <2>1, SyncAssumption DEF Sweep, Go, OrphanInv, TablesOk, Threads
      <3> QED
        BY <3>1, NbRecvTyped
    <2>2. CASE PollEps
      <3>1. /\ pc = "polls" /\ hand = NoOne /\ NbRecv(poll_eps[idx])
            /\ idx \in Nat \ {0} /\ idx <= Len(poll_eps)
        BY <2>2 DEF PollEps, Go, OrphanInv, TablesOk
      <3>2. poll_eps[idx] \in Threads /\ Polled(poll_eps[idx])
        BY <3>1, TypedSeqs DEF Polled
      <3> QED
        BY <3>1, <3>2, NbRecvTyped
    <2>3. CASE SweepEnd \/ PollNtfn \/ PollEpsEnd \/ LockEps \/ Spin \/ PollEnd \/ IrqAck
      <3>1. IdleStep
        BY <2>3 DEF SweepEnd, PollNtfn, NetInterrupt, PollEpsEnd, LockEps, Spin, PollEnd,
                    IrqAck, stack, IdleStep
      <3> QED
        BY <3>1, IdleTyped DEF Steps
    <2>4. CASE UNCHANGED vars
      <3>1. IdleStep
        BY <2>4 DEF vars, stack, IdleStep
      <3> QED
        BY <3>1, IdleTyped DEF Steps
    <2>5. CASE ServerThread
      BY <2>1, <2>2, <2>3, <2>5, BlockedTaskTyped, TasksEndTyped, ReplyTyped, SynTyped,
         DataTyped, ResetTyped DEF ServerThread
    <2> QED
      BY <2>4, <2>5, NetworkTyped, ClientTyped DEF Next
  <1> QED
    BY <1>1, <1>2, <1>3

-----------------------------------------------------------------------------
(* Each thread has at most one place in each table. *)

(* The tables a step leaves alone. *)
LEMMA SameTable ==
  /\ waiting' = waiting => (WaitingOnce <=> WaitingOnce') /\ \A c : Waits(c)' <=> Waits(c)
  /\ poll_eps' = poll_eps => (PolledOnce <=> PolledOnce') /\ \A c : Polled(c)' <=> Polled(c)
  /\ blocked' = blocked => (BlockedOnce <=> BlockedOnce') /\ \A c : Blocked(c)' <=> Blocked(c)
  BY DEF WaitingOnce, PolledOnce, BlockedOnce, Waits, Polled, Blocked

(* A step that touches no table and moves thread c only. *)
LEMMA PlacesMoved ==
  ASSUME Places, UNCHANGED <<waiting, poll_eps, blocked>>, NEW c \in Threads, NEW v, Moved(c, v),
         v \in Inside \/ (v = "sending" /\ cl[c].st = "ready"),
         hand' = hand \/ (hand = NoOne /\ hand' = c /\ ~Blocked(c) /\ cl[c].op # "Listen"
                          /\ v \in Inside)
  PROVE  Places'
  <1>1. WaitingOnce' /\ PolledOnce' /\ BlockedOnce'
    BY SameTable DEF Places
  <1>2. ASSUME NEW x \in Threads PROVE Seat(x)'
    <2>1. Seat(x) /\ (Waits(x)' <=> Waits(x)) /\ (Polled(x)' <=> Polled(x)) /\ (Blocked(x)' <=> Blocked(x))
      BY <1>2, SameTable DEF Places
    <2>2. CASE x # c
      <3>1. cl'[x] = cl[x] /\ (hand' = x => hand = x)
        BY <1>2, <2>2 DEF Moved
      <3> QED
        BY <2>1, <3>1 DEF Seat
    <2>3. CASE x = c
      <3>1. cl'[x].op = cl[x].op /\ cl'[x].st = v
        BY <2>3 DEF Moved
      <3>2. CASE v \in Inside
        BY <2>1, <2>3, <3>1, <3>2 DEF Seat
      <3>3. CASE v = "sending" /\ cl[c].st = "ready" /\ hand' = hand
        BY <2>1, <2>3, <3>1, <3>3 DEF Seat, Inside
      <3> QED
        BY <3>2, <3>3
    <2> QED
      BY <2>2, <2>3
  <1> QED
    BY <1>1, <1>2 DEF Places

LEMMA PlacesListen ==
  ASSUME Typed, Places, NEW c \in Threads, ListenStep(c)
  PROVE  Places'
  <1>1. /\ cl[c].st = "sending" /\ cl[c].op = "Listen" /\ Moved(c, "sent")
        /\ UNCHANGED <<hand, poll_eps, blocked>>
        /\ Len(waiting') = Len(waiting) + 1 /\ Len(waiting) \in Nat
        /\ \A k \in 1 .. Len(waiting) : waiting'[k] = waiting[k]
        /\ waiting'[Len(waiting) + 1].thread = c
    BY TypedSeqs DEF ListenStep
  <1>2. Seat(c) /\ ~Waits(c) /\ ~Polled(c)
    BY <1>1 DEF Places, Seat, Inside
  <1>3. WaitingOnce'
    BY <1>1, <1>2 DEF Places, WaitingOnce, Waits
  <1>4. PolledOnce' /\ BlockedOnce'
    BY <1>1, SameTable DEF Places
  <1>5. ASSUME NEW x \in Threads PROVE Seat(x)'
    <2>1. Seat(x) /\ (Polled(x)' <=> Polled(x)) /\ (Blocked(x)' <=> Blocked(x))
      BY <1>1, <1>5, SameTable DEF Places
    <2>2. Waits(x)' => Waits(x) \/ x = c
      BY <1>1 DEF Waits
    <2>3. CASE x # c
      <3>1. cl'[x] = cl[x]
        BY <1>1, <1>5, <2>3 DEF Moved
      <3> QED
        BY <1>1, <2>1, <2>2, <2>3, <3>1 DEF Seat
    <2>4. CASE x = c
      <3>1. cl'[x].op = cl[c].op /\ cl'[x].st \in Inside
        BY <1>1, <2>4 DEF Moved, Inside
      <3> QED
        BY <1>1, <1>2, <2>1, <2>4, <3>1 DEF Seat
    <2> QED
      BY <2>3, <2>4
  <1> QED
    BY <1>3, <1>4, <1>5 DEF Places

LEMMA PlacesPark ==
  ASSUME Typed, Places, Loops, NEW c \in Threads, ParkStep(c)
  PROVE  Places'
  <1>1. /\ cl[c].st = "sending" /\ cl[c].op = "Recv" /\ Moved(c, "sent")
        /\ pc \in {"sweep", "polls"} /\ hand = NoOne
        /\ UNCHANGED <<hand, poll_eps, waiting>>
        /\ Len(blocked') = Len(blocked) + 1 /\ Len(blocked) \in Nat
        /\ \A k \in 1 .. Len(blocked) : blocked'[k] = blocked[k]
        /\ blocked'[Len(blocked) + 1].thread = c
    BY TypedSeqs DEF ParkStep
  <1>2. Seat(c) /\ ~Blocked(c) /\ NoOne # c
    BY <1>1, SyncAssumption DEF Places, Seat, Inside, NoOne, Threads
  <1>3. \A k \in 1 .. Len(blocked) : blocked[k].thread # c
    BY <1>1, <1>2 DEF Loops, Blocked
  <1>4. BlockedOnce'
    BY <1>1, <1>3 DEF Places, BlockedOnce
  <1>5. PolledOnce' /\ WaitingOnce'
    BY <1>1, SameTable DEF Places
  <1>6. ASSUME NEW x \in Threads PROVE Seat(x)'
    <2>1. Seat(x) /\ (Polled(x)' <=> Polled(x)) /\ (Waits(x)' <=> Waits(x))
      BY <1>1, <1>6, SameTable DEF Places
    <2>2. Blocked(x)' => Blocked(x) \/ x = c
      BY <1>1 DEF Blocked
    <2>3. CASE x # c
      <3>1. cl'[x] = cl[x]
        BY <1>1, <1>6, <2>3 DEF Moved
      <3> QED
        BY <1>1, <2>1, <2>2, <2>3, <3>1 DEF Seat
    <2>4. CASE x = c
      <3>1. cl'[x].op = cl[c].op /\ cl'[x].st \in Inside
        BY <1>1, <2>4 DEF Moved, Inside
      <3> QED
        BY <1>1, <1>2, <2>1, <2>4, <3>1 DEF Seat
    <2> QED
      BY <2>3, <2>4
  <1> QED
    BY <1>4, <1>5, <1>6 DEF Places

LEMMA PlacesTask ==
  ASSUME Typed, Places, Loops, NEW c \in Threads, TaskStep(c)
  PROVE  Places' /\ Blocked(c)
  <1>1. /\ pc = "tasks" /\ idx \in 1 .. Len(blocked) /\ blocked[idx].thread = c
        /\ Moved(c, cl[c].st) /\ hand = NoOne /\ hand' = c
        /\ Len(blocked') = Len(blocked)
        /\ \A k \in 1 .. Len(blocked) :
              /\ blocked'[k].thread = blocked[k].thread
              /\ blocked'[k].complete <=> k = idx \/ blocked[k].complete
        /\ UNCHANGED <<waiting, poll_eps>>
    BY DEF TaskStep
  <1>2. ~blocked[idx].complete
    BY <1>1 DEF Loops
  <1>3. Blocked(c)
    BY <1>1, <1>2 DEF Blocked
  <1>4. BlockedOnce'
    BY <1>1 DEF Places, BlockedOnce
  <1>5. PolledOnce' /\ WaitingOnce'
    BY <1>1, SameTable DEF Places
  <1>6. ASSUME NEW x \in Threads PROVE Seat(x)'
    <2>1. Seat(x) /\ (Polled(x)' <=> Polled(x)) /\ (Waits(x)' <=> Waits(x))
      BY <1>1, <1>6, SameTable DEF Places
    <2>2. Blocked(x)' => Blocked(x) /\ x # c
      <3> SUFFICES ASSUME NEW k \in 1 .. Len(blocked), blocked'[k].thread = x, ~blocked'[k].complete
                   PROVE  Blocked(x) /\ x # c
        BY <1>1 DEF Blocked
      <3>1. blocked[k].thread = x /\ ~blocked[k].complete /\ k # idx
        BY <1>1
      <3> QED
        BY <1>1, <3>1 DEF Blocked, Places, BlockedOnce
    <2>3. cl'[x].op = cl[x].op /\ cl'[x].st = cl[x].st
      BY <1>1, <1>6 DEF Moved
    <2> QED
      BY <1>1, <1>3, <2>1, <2>2, <2>3 DEF Seat, Inside
  <1> QED
    BY <1>3, <1>4, <1>5, <1>6 DEF Places

LEMMA PlacesPurge == ASSUME Typed, Places, PurgeStep PROVE Places'
  <1>1. /\ \A i \in 1 .. Len(blocked') : ~blocked'[i].complete
        /\ \A i \in 1 .. Len(blocked') : \E k \in 1 .. Len(blocked) : blocked'[i] = blocked[k]
        /\ BlockedOnce => BlockedOnce'
        /\ UNCHANGED <<hand, waiting, poll_eps, cl>>
    BY DEF PurgeStep, BlockedOnce
  <1>2. PolledOnce' /\ WaitingOnce' /\ BlockedOnce'
    BY <1>1, SameTable DEF Places
  <1>3. ASSUME NEW x \in Threads PROVE Seat(x)'
    <2>1. Seat(x) /\ (Polled(x)' <=> Polled(x)) /\ (Waits(x)' <=> Waits(x))
      BY <1>1, <1>3, SameTable DEF Places
    <2>2. Blocked(x)' => Blocked(x)
      <3> SUFFICES ASSUME NEW i \in 1 .. Len(blocked'), blocked'[i].thread = x
                   PROVE  Blocked(x)
        BY DEF Blocked
      <3>1. PICK k \in 1 .. Len(blocked) : blocked'[i] = blocked[k]
        BY <1>1
      <3>2. ~blocked[k].complete /\ blocked[k].thread = x
        BY <1>1, <3>1
      <3> QED
        BY <3>2 DEF Blocked
    <2> QED
      BY <1>1, <2>1, <2>2 DEF Seat
  <1> QED
    BY <1>2, <1>3 DEF Places

LEMMA PlacesReply ==
  ASSUME Typed, Places, NEW c \in Threads, ReplyStep(c)
  PROVE  Places'
  <1>1. hand = c /\ hand' = NoOne /\ Answered(c, cl[c].fd) /\ UNCHANGED <<waiting, poll_eps, blocked>>
    BY DEF ReplyStep
  <1>2. PolledOnce' /\ WaitingOnce' /\ BlockedOnce'
    BY <1>1, SameTable DEF Places
  <1>3. ASSUME NEW x \in Threads PROVE Seat(x)'
    <2>1. Seat(x) /\ (Polled(x)' <=> Polled(x)) /\ (Waits(x)' <=> Waits(x))
          /\ (Blocked(x)' <=> Blocked(x)) /\ x # NoOne
      BY <1>1, <1>3, SameTable, SyncAssumption DEF Places, NoOne, Threads
    <2>2. cl'[x] = cl[x] \/ (x = c /\ cl'[x].op # "Listen")
      BY <1>1, <1>3 DEF Answered
    <2> QED
      BY <1>1, <2>1, <2>2 DEF Seat
  <1> QED
    BY <1>2, <1>3 DEF Places

(* The first of the listen table goes: what becomes of the other rows. *)
LEMMA FirstGoes ==
  ASSUME Typed, WaitingOnce, waiting # <<>>, Len(waiting') = Len(waiting) - 1,
         \A k \in 1 .. Len(waiting') : waiting'[k] = waiting[k + 1]
  PROVE  /\ Len(waiting) \in Nat \ {0} /\ waiting[1].thread \in Threads /\ Waits(waiting[1].thread)
         /\ waiting[1].handle \in 1 .. Len(sock)
         /\ WaitingOnce'
         /\ \A x : Waits(x)' <=> Waits(x) /\ x # waiting[1].thread
         /\ \A k \in 1 .. Len(waiting') : k + 1 \in 1 .. Len(waiting)
  <1>1. Len(waiting) \in Nat \ {0} /\ 1 \in 1 .. Len(waiting)
    BY EmptySeq DEF Typed
  <1>2. waiting[1] \in WaitSet /\ waiting[1].handle <= Len(sock) /\ Len(sock) \in Nat
    BY <1>1, TypedSeqs DEF Typed
  <1>3. waiting[1].thread \in Threads /\ waiting[1].handle \in 1 .. Len(sock)
    BY <1>2 DEF WaitSet
  <1>4. Waits(waiting[1].thread)
    BY <1>1 DEF Waits
  <1>5. \A k \in 1 .. Len(waiting') : k + 1 \in 1 .. Len(waiting) /\ k + 1 # 1
    BY <1>1
  <1>6. WaitingOnce'
    <2> SUFFICES ASSUME NEW i \in 1 .. Len(waiting'), NEW j \in 1 .. Len(waiting'),
                        waiting'[i].thread = waiting'[j].thread
                 PROVE  i = j
      BY DEF WaitingOnce
    <2>1. i + 1 = j + 1
      BY <1>5 DEF WaitingOnce
    <2> QED
      BY <1>1, <2>1
  <1>7. ASSUME NEW x PROVE Waits(x)' <=> Waits(x) /\ x # waiting[1].thread
    <2>1. ASSUME Waits(x)' PROVE Waits(x) /\ x # waiting[1].thread
      <3>1. PICK k \in 1 .. Len(waiting') : waiting'[k].thread = x
        BY <2>1 DEF Waits
      <3>2. waiting[k + 1].thread = x /\ k + 1 \in 1 .. Len(waiting) /\ k + 1 # 1
        BY <1>5, <3>1
      <3> QED
        BY <1>1, <3>2 DEF Waits, WaitingOnce
    <2>2. ASSUME Waits(x), x # waiting[1].thread PROVE Waits(x)'
      <3>1. PICK k \in 1 .. Len(waiting) : waiting[k].thread = x
        BY <2>2 DEF Waits
      <3>2. PICK i \in 1 .. Len(waiting') : i + 1 = k
        <4>1. k # 1
          BY <2>2, <3>1
        <4>2. k - 1 \in 1 .. Len(waiting') /\ (k - 1) + 1 = k
          BY <1>1, <4>1
        <4> QED
          BY <4>2
      <3>3. waiting'[i].thread = x
        BY <3>1, <3>2
      <3> QED
        BY <3>3 DEF Waits
    <2> QED
      BY <2>1, <2>2
  <1> QED
    BY <1>1, <1>3, <1>4, <1>5, <1>6, <1>7

LEMMA PlacesSyn ==
  ASSUME Typed, Places, TableStep, UNCHANGED <<hand, blocked>>
  PROVE  Places'
  <1> DEFINE t == waiting[1].thread
  <1>1. CASE UNCHANGED <<waiting, cl, pc, poll_eps>>
    <2>1. PolledOnce' /\ WaitingOnce' /\ BlockedOnce'
      BY <1>1, SameTable DEF Places
    <2>2. \A x \in Threads : Seat(x)'
      BY <1>1, SameTable DEF Places, Seat
    <2> QED
      BY <2>1, <2>2 DEF Places
  <1>2. CASE /\ waiting # <<>> /\ Len(waiting') = Len(waiting) - 1
             /\ \A k \in 1 .. Len(waiting') : waiting'[k] = waiting[k + 1]
             /\ \/ cl[t].st = "recv" /\ Answered(t, waiting[1].handle)
                \/ cl' = cl
             /\ \/ poll_eps' = poll_eps
                \/ /\ Len(poll_eps') = Len(poll_eps) + 1
                   /\ \A k \in 1 .. Len(poll_eps) : poll_eps'[k] = poll_eps[k]
                   /\ poll_eps'[Len(poll_eps) + 1] = t
    <2>1. /\ t \in Threads /\ Waits(t) /\ WaitingOnce'
          /\ \A x : Waits(x)' <=> Waits(x) /\ x # t
      BY <1>2, FirstGoes DEF Places
    <2> HIDE DEF t
    <2>2. Seat(t) /\ ~Polled(t) /\ cl[t].op = "Listen" /\ cl[t].st \in Inside
      BY <2>1 DEF Places, Seat
    <2>3. Len(poll_eps) \in Nat
      BY TypedSeqs
    <2>4. PolledOnce'
      <3>1. CASE poll_eps' = poll_eps
        BY <3>1, SameTable DEF Places
      <3>2. CASE /\ Len(poll_eps') = Len(poll_eps) + 1
                 /\ \A k \in 1 .. Len(poll_eps) : poll_eps'[k] = poll_eps[k]
                 /\ poll_eps'[Len(poll_eps) + 1] = t
        BY <2>2, <2>3, <3>2 DEF Places, PolledOnce, Polled
      <3> QED
        BY <1>2, <3>1, <3>2
    <2>5. \A x : Polled(x)' => Polled(x) \/ x = t
      BY <1>2, <2>3 DEF Polled
    <2>6. BlockedOnce'
      BY SameTable DEF Places
    <2>7. ASSUME NEW x \in Threads PROVE Seat(x)'
      <3>1. Seat(x) /\ (Blocked(x)' <=> Blocked(x)) /\ (Waits(x)' <=> Waits(x) /\ x # t)
            /\ (Polled(x)' => Polled(x) \/ x = t)
        BY <2>1, <2>5, <2>7, SameTable DEF Places
      <3>2. cl'[x] = cl[x] \/ (x = t /\ cl'[x].op # "Listen")
        BY <1>2, <2>7 DEF Answered
      <3> QED
        BY <2>2, <3>1, <3>2 DEF Seat
    <2> QED
      BY <2>1, <2>4, <2>6, <2>7 DEF Places
  <1> QED
    BY <1>1, <1>2 DEF TableStep

LEMMA PlacesNext == ASSUME Typed, Places, Loops, Steps PROVE Places'
  <1>1. CASE IdleStep \/ \E p \in Peers : \/ DataStep(p) \/ ResetStep(p) \/ ConnectStep(p)
                \/ RetransmitStep(p) \/ BurstStep(p) \/ PeerStep(p, "established", "reset", "RST")
    <2>1. UNCHANGED <<hand, waiting, poll_eps, blocked, cl>>
      BY <1>1 DEF IdleStep, DataStep, ResetStep, ConnectStep, RetransmitStep, BurstStep,
                  PeerStep, Taken
    <2>2. PolledOnce' /\ WaitingOnce' /\ BlockedOnce'
      BY <2>1, SameTable DEF Places
    <2>3. \A x \in Threads : Seat(x)'
      BY <2>1, SameTable DEF Places, Seat
    <2> QED
      BY <2>2, <2>3 DEF Places
  <1>2. ASSUME NEW c \in Threads, ThreadMove(c) PROVE Places'
    BY <1>2, PlacesMoved DEF ThreadMove, Inside
  <1>3. ASSUME NEW c \in Threads, GetStep(c) PROVE Places'
    <2>1. ~Blocked(c)
      BY <1>3 DEF GetStep, Places, Seat, Inside
    <2> QED
      BY <1>3, <2>1, PlacesMoved DEF GetStep, Inside
  <1>4. ASSUME NEW c \in Threads, SendStep(c) PROVE Places'
    <2>1. ~Blocked(c)
      BY <1>4 DEF SendStep, Places, Seat, Inside
    <2> QED
      BY <1>4, <2>1, PlacesMoved DEF SendStep, Inside
  <1>5. ASSUME NEW c \in Threads, CutStep(c) PROVE Places'
    BY <1>5, PlacesMoved DEF CutStep, Inside
  <1>6. ASSUME NEW p \in Peers, SynStep(p) PROVE Places'
    BY <1>6, PlacesSyn DEF SynStep, Taken
  <1> QED
    BY <1>1, <1>2, <1>3, <1>4, <1>5, <1>6, PlacesListen, PlacesPark, PlacesTask, PlacesPurge,
       PlacesReply DEF Steps

-----------------------------------------------------------------------------
(* The loops of the server. *)

(* A sequence over S without repetitions is no longer than S is large. *)
LEMMA DistinctSeq ==
  ASSUME NEW S, IsFiniteSet(S), NEW s \in Seq(S), \A i, j \in 1 .. Len(s) : s[i] = s[j] => i = j
  PROVE  Len(s) <= Cardinality(S)
  <1>1. Len(s) \in Nat /\ s \in [1 .. Len(s) -> S]
    BY LenProperties
  <1>2. s \in Injection(1 .. Len(s), S)
    BY <1>1 DEF Injection, IsInjective
  <1>3. Cardinality(1 .. Len(s)) <= Cardinality(S)
    BY <1>2, FS_Injection
  <1>4. Cardinality(1 .. Len(s)) = Len(s)
    BY <1>1, FS_Interval
  <1> QED
    BY <1>3, <1>4

LEMMA TableLengths ==
  ASSUME Typed, Places
  PROVE  /\ Len(poll_eps) \in Nat /\ Len(poll_eps) <= ThreadNum
         /\ Len(blocked) \in Nat /\ Len(blocked) <= ThreadNum
  <1>1. ThreadNum \in Nat /\ IsFiniteSet(Threads) /\ Cardinality(Threads) = ThreadNum
    BY SyncAssumption, FS_Interval DEF Threads
  <1>2. Len(poll_eps) \in Nat /\ Len(blocked) \in Nat
    BY TypedSeqs
  <1>3. Len(poll_eps) <= ThreadNum
    BY <1>1, DistinctSeq DEF Typed, Places, PolledOnce
  <1>4. Len(blocked) <= ThreadNum
    <2> DEFINE s == [k \in 1 .. Len(blocked) |-> blocked[k].thread]
    <2>1. \A k \in 1 .. Len(blocked) : s[k] \in Threads
      BY TypedSeqs DEF TaskSet
    <2>2. \A i, j \in 1 .. Len(blocked) : s[i] = s[j] => i = j
      BY DEF Places, BlockedOnce
    <2>3. s \in Injection(1 .. Len(blocked), Threads)
      <3>1. s \in [1 .. Len(blocked) -> Threads]
        BY <2>1
      <3> HIDE DEF s
      <3> QED
        BY <2>2, <3>1 DEF Injection, IsInjective
    <2>4. Cardinality(1 .. Len(blocked)) <= Cardinality(Threads)
      <3> HIDE DEF s
      <3> QED
        BY <1>1, <2>3, FS_Injection
    <2> HIDE DEF s
    <2>5. Cardinality(1 .. Len(blocked)) = Len(blocked)
      <3>1. PICK n \in Nat : n = Len(blocked)
        BY <1>2
      <3>2. Cardinality(1 .. n) = n
        BY FS_Interval
      <3> QED
        BY <3>1, <3>2
    <2> QED
      BY <1>1, <2>4, <2>5
  <1> QED
    BY <1>2, <1>3, <1>4

(* What nb_recv does to the variables of the loops. *)
LEMMA NbRecvLoops ==
  ASSUME Typed, Loops, NEW c \in Threads, NbRecv(c), pc # "tasks", polling = "no"
  PROVE  /\ polling' \in {"no", "irq", "send"} /\ poll_eps' = poll_eps
         /\ \A k \in 1 .. Len(blocked') : ~blocked'[k].complete
  <1>1. polling' \in {"no", "irq", "send"} /\ poll_eps' = poll_eps
    BY DEF NbRecv, NetInterrupt, ReqListen, ReqRecv, ReqSend, stack
  <1>2. \A k \in 1 .. Len(blocked) : ~blocked[k].complete
    BY DEF Loops
  <1>3. blocked' = blocked \/ blocked' = Append(blocked, [thread |-> c, complete |-> FALSE])
    BY DEF NbRecv, NetInterrupt, ReqListen, ReqRecv, ReqSend
  <1>4. CASE blocked' = blocked
    BY <1>1, <1>2, <1>4
  <1>5. CASE blocked' = Append(blocked, [thread |-> c, complete |-> FALSE])
    <2> DEFINE e == [thread |-> c, complete |-> FALSE]
    <2>1. e \in TaskSet /\ ~e.complete /\ blocked \in Seq(TaskSet) /\ Len(blocked) \in Nat
      BY TypedSeqs DEF TaskSet, Typed
    <2>2. blocked' = Append(blocked, e)
      BY <1>5
    <2> HIDE DEF e
    <2>3. /\ Len(blocked') = Len(blocked) + 1
          /\ \A k \in 1 .. Len(blocked) : blocked'[k] = blocked[k]
          /\ blocked'[Len(blocked) + 1] = e
      BY <2>1, <2>2, AppendProperties
    <2>4. \A k \in 1 .. Len(blocked') : ~blocked'[k].complete
      BY <1>2, <2>1, <2>3
    <2> QED
      BY <1>1, <2>4
  <1> QED
    BY <1>3, <1>4, <1>5

LEMMA LoopsSweep == ASSUME Typed, OrphanInv, Loops, Sweep \/ SweepEnd PROVE Loops'
  <1>1. /\ pc = "sweep" /\ polling = "no" /\ idx \in Nat \ {0} /\ listen_cnt \in Nat
        /\ listen_cnt < idx /\ idx <= ThreadNum + 1 /\ ThreadNum \in Nat \ {0}
    BY SyncAssumption DEF Sweep, SweepEnd, Go, OrphanInv, TablesOk, SweepInv
  <1>2. CASE Sweep
    <2>1. /\ idx <= ThreadNum /\ NbRecv(idx) /\ idx' = idx + 1 /\ pc' = "sweep"
          /\ listen_cnt' \in {listen_cnt, listen_cnt + 1}
      BY <1>2 DEF Sweep, GoOn
    <2>2. idx \in Threads
      BY <1>1, <2>1 DEF Threads
    <2>3. /\ polling' \in {"no", "irq", "send"} /\ \A k \in 1 .. Len(blocked') : ~blocked'[k].complete
      BY <1>1, <2>1, <2>2, NbRecvLoops
    <2>4. idx' \in 1 .. ThreadNum + 1 /\ listen_cnt' \in 0 .. ThreadNum
      BY <1>1, <2>1
    <2> QED
      BY <2>1, <2>3, <2>4 DEF Loops
  <1>3. CASE SweepEnd
    <2>1. /\ idx' = 1 /\ listen_cnt' = 0 /\ pc' \in {"ntfn", "sweep"} /\ polling' = polling
          /\ blocked' = blocked
      BY <1>3 DEF SweepEnd, GoOn
    <2>2. 1 \in 1 .. ThreadNum + 1 /\ 0 \in 0 .. ThreadNum
      BY <1>1
    <2>3. \A k \in 1 .. Len(blocked') : ~blocked'[k].complete
      BY <1>1, <2>1 DEF Loops
    <2> QED
      BY <1>1, <2>1, <2>2, <2>3 DEF Loops
  <1> QED
    BY <1>2, <1>3

LEMMA LoopsSecond ==
  ASSUME Typed, OrphanInv, Places, Loops, PollNtfn \/ LockEps \/ PollEps \/ PollEpsEnd
  PROVE  Loops'
  <1>1. /\ pc \in {"ntfn", "lock", "polls"} /\ polling = "no" /\ idx \in Nat \ {0}
        /\ listen_cnt = 0 /\ listen_cnt' = 0 /\ ThreadNum \in Nat \ {0}
        /\ Len(poll_eps) \in Nat /\ Len(poll_eps) <= ThreadNum /\ Len(blocked) \in Nat
    BY SyncAssumption, TableLengths
    DEF PollNtfn, LockEps, PollEps, PollEpsEnd, Go, OrphanInv, TablesOk, Loops
  <1>2. CASE PollNtfn \/ LockEps \/ PollEpsEnd
    <2>1. /\ idx' = 1 /\ blocked' = blocked /\ poll_eps' = poll_eps
          /\ \/ pc' \in {"lock", "polls"} /\ polling' \in {"no", "irq"}
             \/ pc' = "tasks" /\ polling' = "no"
      BY <1>1, <1>2 DEF PollNtfn, NetInterrupt, LockEps, PollEpsEnd, GoOn, stack
    <2>2. 1 \in 1 .. ThreadNum + 1 /\ 0 \in 0 .. ThreadNum /\ 1 <= Len(poll_eps) + 1
          /\ 1 <= Len(blocked) + 1
      BY <1>1
    <2>3. \A k \in 1 .. Len(blocked') : ~blocked'[k].complete
      BY <1>1, <2>1 DEF Loops
    <2> QED
      BY <1>1, <2>1, <2>2, <2>3 DEF Loops
  <1>3. CASE PollEps
    <2>1. idx <= Len(poll_eps) /\ NbRecv(poll_eps[idx]) /\ idx' = idx + 1 /\ pc' = "polls"
      BY <1>3 DEF PollEps, GoOn
    <2>2. poll_eps[idx] \in Threads
      BY <1>1, <2>1, TypedSeqs
    <2>3. /\ polling' \in {"no", "irq", "send"} /\ poll_eps' = poll_eps
          /\ \A k \in 1 .. Len(blocked') : ~blocked'[k].complete
      BY <1>1, <2>1, <2>2, NbRecvLoops
    <2>4. idx' \in 1 .. ThreadNum + 1 /\ idx' <= Len(poll_eps) + 1 /\ 0 \in 0 .. ThreadNum
      BY <1>1, <2>1
    <2> QED
      BY <1>1, <2>1, <2>3, <2>4 DEF Loops
  <1> QED
    BY <1>2, <1>3

LEMMA LoopsTasks ==
  ASSUME Typed, OrphanInv, Places, Loops, BlockedTask \/ TasksEnd
  PROVE  Loops'
  <1>1. /\ pc = "tasks" /\ polling = "no" /\ polling' = "no" /\ idx \in Nat \ {0}
        /\ listen_cnt = 0 /\ listen_cnt' = 0 /\ ThreadNum \in Nat \ {0}
        /\ Len(blocked) \in Nat /\ Len(blocked) <= ThreadNum
    BY SMTT(30), SyncAssumption, TableLengths DEF BlockedTask, TasksEnd, Go, OrphanInv, TablesOk, Loops
  <1>2. CASE BlockedTask
    <2>1. /\ pc' = "tasks" /\ idx' = idx + 1 /\ idx <= Len(blocked)
          /\ blocked' = blocked \/ blocked' = [blocked EXCEPT ![idx].complete = TRUE]
      BY <1>2 DEF BlockedTask, GoOn
    <2>2. Len(blocked') = Len(blocked) /\ \A k \in 1 .. Len(blocked) : k # idx => blocked'[k] = blocked[k]
      <3>1. idx \in 1 .. Len(blocked) /\ blocked \in Seq(TaskSet) /\ blocked[idx] \in TaskSet
        BY <1>1, <2>1, TypedSeqs DEF Typed
      <3>2. CASE blocked' = blocked
        BY <3>2
      <3>3. CASE blocked' = [blocked EXCEPT ![idx].complete = TRUE]
        <4> DEFINE e == [blocked[idx] EXCEPT !.complete = TRUE]
                   t == [blocked EXCEPT ![idx] = e]
        <4>1. e \in TaskSet
          BY <3>1 DEF TaskSet
        <4>2. blocked' = t
          BY <3>3
        <4> HIDE DEF e
        <4>3. /\ Len(t) = Len(blocked)
              /\ \A k \in 1 .. Len(blocked) : t[k] = IF k = idx THEN e ELSE blocked[k]
          BY <3>1, <4>1, ExceptSeq
        <4> HIDE DEF t
        <4> QED
          BY <4>2, <4>3
      <3> QED
        BY <2>1, <3>2, <3>3
    <2>3. \A k \in 1 .. Len(blocked') : blocked'[k].complete => k < idx'
      BY <1>1, <2>1, <2>2 DEF Loops
    <2>4. idx' \in 1 .. ThreadNum + 1 /\ idx' <= Len(blocked') + 1 /\ 0 \in 0 .. ThreadNum
      BY <1>1, <2>1, <2>2
    <2> QED
      BY <1>1, <2>1, <2>3, <2>4 DEF Loops
  <1>3. CASE TasksEnd
    <2>1. pc' = "ntfn" /\ idx' = 1
      BY <1>3 DEF TasksEnd, GoOn
    <2>2. \A k \in 1 .. Len(blocked') : ~blocked'[k].complete
      <3>1. PICK f \in [1 .. Cardinality(Pending) -> Pending] :
              blocked' = [i \in 1 .. Cardinality(Pending) |-> blocked[f[i]]]
        BY <1>3 DEF TasksEnd
      <3>2. DOMAIN blocked' = 1 .. Len(blocked')
        <4>1. Typed'
          BY <1>3, TasksEndTyped
        <4>2. blocked' \in Seq(TaskSet)
          BY <4>1 DEF Typed
        <4> QED
          BY <4>2, LenProperties
      <3>3. \A k \in 1 .. Len(blocked') : f[k] \in Pending /\ blocked'[k] = blocked[f[k]]
        BY <3>1, <3>2
      <3> QED
        BY <3>3 DEF Pending
    <2>3. 1 \in 1 .. ThreadNum + 1 /\ 0 \in 0 .. ThreadNum
      BY <1>1
    <2> QED
      BY <1>1, <2>1, <2>2, <2>3 DEF Loops
  <1> QED
    BY SMTT(30), <1>2, <1>3

(* The steps of a poll, of the threads and of the network leave the loops  *)
(* where they are; a server that holds POLL_EPS in "tasks" does not poll.  *)
LEMMA LoopsRest ==
  ASSUME Typed, Typed', Loops, idx' = idx, listen_cnt' = listen_cnt, blocked' = blocked,
         Len(poll_eps') >= Len(poll_eps),
         polling' \in {polling, "no"} \/ (polling = "irq" /\ polling' = "ack"),
         pc' = pc \/ (pc' = "spin" /\ pc # "sweep" /\ polling # "no")
  PROVE  Loops'
  <1>1. Len(poll_eps) \in Nat /\ idx \in Nat
    BY TypedSeqs DEF Loops
  <1>2. Len(poll_eps') \in Nat
    BY LenProperties DEF Typed
  <1>3. CASE pc' = pc
    BY <1>1, <1>2, <1>3 DEF Loops
  <1>4. CASE pc' = "spin" /\ pc # "sweep" /\ polling # "no"
    BY <1>4 DEF Loops
  <1> QED
    BY <1>3, <1>4

LEMMA LoopsNext ==
  ASSUME Typed, Typed', OrphanInv, Places, Loops, [Next]_vars
  PROVE  Loops'
  <1>0. Len(poll_eps) \in Nat
    BY TypedSeqs
  <1>1. CASE PollSyn
    <2>1. /\ polling # "no" /\ polling' = polling /\ idx' = idx /\ listen_cnt' = listen_cnt
          /\ blocked' = blocked
          /\ pc' = pc \/ (pc' = "spin" /\ pc # "sweep")
          /\ poll_eps' = poll_eps \/ poll_eps' = Append(poll_eps, Head(waiting).thread)
      BY <1>1 DEF PollSyn, PollFrame, IncomingSyn, Held
    <2>2. Len(poll_eps') >= Len(poll_eps)
      <3>1. CASE poll_eps' = poll_eps
        BY <1>0, <3>1
      <3>2. CASE poll_eps' # poll_eps
        <4>1. waiting # <<>> /\ waiting \in Seq(WaitSet)
          BY <1>1, <3>2 DEF PollSyn, Typed
        <4>2. Head(waiting).thread \in Threads
          <5>1. Head(waiting) \in WaitSet
            BY <4>1, HeadTailProperties
          <5> QED
            BY <5>1 DEF WaitSet
        <4>3. poll_eps \in Seq(Threads) /\ poll_eps' = Append(poll_eps, Head(waiting).thread)
          BY <2>1, <3>2 DEF Typed
        <4>4. Len(poll_eps') = Len(poll_eps) + 1
          BY <4>2, <4>3, AppendProperties
        <4> QED
          BY <1>0, <4>4
      <3> QED
        BY <3>1, <3>2
    <2> QED
      BY <2>1, <2>2, LoopsRest
  <1>2. CASE PollData \/ PollReset \/ Reply \/ Spin \/ IrqAck
    BY <1>0, <1>2, LoopsRest DEF PollData, PollReset, PollFrame, IrqAck, Reply, Spin, stack, server
  <1>5. CASE PollEnd
    BY <1>0, <1>5, LoopsRest DEF PollEnd, stack
  <1>3. CASE ClientThreads \/ UNCHANGED vars
    BY <1>0, <1>3, LoopsRest DEF ClientThreads, ClientSend, ClientRecv, stack, server, vars
  <1>4. ASSUME NEW p \in Peers, Network(p) PROVE Loops'
    BY <1>0, <1>4, LoopsRest DEF Network, PeerConnect, PeerRetransmit, PeerData, PeerReset, Arrive, server
  <1> QED
    BY <1>1, <1>2, <1>3, <1>4, <1>5, LoopsSweep, LoopsSecond, LoopsTasks DEF Next, ServerThread

-----------------------------------------------------------------------------
(* The sockets and the peers. *)

LEMMA GivenSocket == ASSUME Typed, NEW c \in Threads, cl[c].op # "Listen" PROVE cl[c].fd \in 1 .. Len(sock)
  BY TypedSeqs DEF Typed, ThreadSet, NoFd

LEMMA OwnedKept ==
  ASSUME Owned, Len(sock') = Len(sock), \A h \in 1 .. Len(sock) : sock'[h].peer = sock[h].peer,
         \A p \in Peers : peer'[p].st \in {"established", "reset"} <=>
                          peer[p].st \in {"established", "reset"}
  PROVE  Owned'
  <1>1. \A h \in 1 .. Len(sock), p \in Peers : Owner(h, p)' <=> Owner(h, p)
    BY DEF Owner
  <1> QED
    BY <1>1 DEF Owned

(* A step that leaves states and peers of the sockets, and the states of   *)
(* the peers, as they are.                                                 *)
LEMMA SocketsKept ==
  ASSUME Sockets, Len(sock') = Len(sock),
         \A h \in 1 .. Len(sock) :
             /\ sock'[h].st = sock[h].st /\ sock'[h].peer = sock[h].peer
             /\ sock[h].rx = <<>> /\ sock[h].peer = {} => sock'[h].rx = <<>>,
         \A p \in Peers : peer'[p].st = peer[p].st
  PROVE  (\A h \in 1 .. Len(sock') : SockOk(h)') /\ Owned'
  <1>1. \A h \in 1 .. Len(sock') : SockOk(h)'
    BY DEF Sockets, SockOk
  <1>2. Owned'
    BY OwnedKept DEF Sockets
  <1> QED
    BY <1>1, <1>2

(* Fresh is kept by a thread that moves, if the server reads for it only   *)
(* from a connected socket.                                                *)
LEMMA FreshMoved ==
  ASSUME Typed, Sockets, NEW c \in Threads, NEW v, Moved(c, v),
         \A h \in 1 .. Len(sock) : sock'[h].st = sock[h].st,
         hand' = hand \/ (hand' = c /\ sock[cl[c].fd].st # "listen")
  PROVE  \A x \in Threads : Fresh(x)'
  <1> SUFFICES ASSUME NEW x \in Threads, cl'[x].op # "Listen", sock'[cl'[x].fd].st = "listen"
               PROVE  cl'[x].op = "Recv" /\ hand' # x /\ cl'[x].seen = 0
    BY DEF Fresh
  <1>1. cl'[x].op = cl[x].op /\ cl'[x].fd = cl[x].fd /\ cl'[x].seen = cl[x].seen
    BY DEF Moved
  <1>2. cl[x].fd \in 1 .. Len(sock)
    BY <1>1, GivenSocket
  <1>3. sock[cl[x].fd].st = "listen" /\ Fresh(x)
    BY <1>1, <1>2 DEF Sockets
  <1> QED
    BY <1>1, <1>3 DEF Fresh

LEMMA SocketsListen == ASSUME Typed, Sockets, NEW c \in Threads, ListenStep(c) PROVE Sockets'
  <1>1. /\ Moved(c, "sent") /\ Len(sock') = Len(sock) + 1 /\ Len(sock) \in Nat
        /\ \A h \in 1 .. Len(sock) : sock'[h] = sock[h]
        /\ sock'[Len(sock) + 1].st = "listen" /\ sock'[Len(sock) + 1].peer = {}
        /\ sock'[Len(sock) + 1].rx = <<>>
        /\ hand' = hand /\ peer' = peer
    BY TypedSeqs DEF ListenStep
  <1>2. \A h \in 1 .. Len(sock') : h \in 1 .. Len(sock) \/ h = Len(sock) + 1
    BY <1>1
  <1>3. \A h \in 1 .. Len(sock') : SockOk(h)'
    BY <1>1, <1>2 DEF Sockets, SockOk
  <1>4. \A h \in 1 .. Len(sock'), p \in Peers : Owner(h, p)' => h \in 1 .. Len(sock) /\ Owner(h, p)
    BY <1>1, <1>2 DEF Owner
  <1>5. \A h \in 1 .. Len(sock), p \in Peers : Owner(h, p) => Owner(h, p)' /\ h \in 1 .. Len(sock')
    BY <1>1 DEF Owner
  <1>6. Owned'
    BY <1>1, <1>4, <1>5 DEF Sockets, Owned
  <1>7. \A x \in Threads : Fresh(x)'
    BY <1>1, FreshMoved
  <1> QED
    BY <1>3, <1>6, <1>7 DEF Sockets

(* The requests and the tasks that read from a socket. *)
LEMMA SocketsRead ==
  ASSUME Typed, Sockets, NEW c \in Threads, NEW v, Moved(c, v), NEW n, Drained(cl[c].fd, n),
         cl[c].op # "Listen", hand' = c, peer' = peer
  PROVE  Sockets'
  <1> DEFINE g == cl[c].fd
  <1>1. /\ Len(sock') = Len(sock) /\ sock[g].rx # <<>> /\ g \in 1 .. Len(sock)
        /\ \A h \in 1 .. Len(sock) : sock'[h].st = sock[h].st /\ sock'[h].peer = sock[h].peer
        /\ \A h \in 1 .. Len(sock) : h # g => sock'[h].rx = sock[h].rx
    BY GivenSocket DEF Drained
  <1>2. SockOk(g) /\ sock[g].st # "listen" /\ sock[g].peer # {}
    BY <1>1 DEF Sockets, SockOk
  <1>3. \A x \in Threads : Fresh(x)'
    BY <1>1, <1>2, FreshMoved
  <1>4. (\A h \in 1 .. Len(sock') : SockOk(h)') /\ Owned'
    <2> HIDE DEF g
    <2> QED
      BY <1>1, <1>2, SocketsKept
  <1> QED
    BY <1>3, <1>4 DEF Sockets

LEMMA SocketsMoved ==
  ASSUME Typed, Sockets, NEW c \in Threads, NEW v, Moved(c, v), sock' = sock,
         \A p \in Peers : peer'[p].st = peer[p].st,
         hand' = hand \/ (hand' = c /\ cl[c].op \in {"Send", "Bye"})
  PROVE  Sockets'
  <1>1. hand' = c /\ hand' # hand => sock[cl[c].fd].st # "listen"
    BY DEF Sockets, Fresh
  <1>2. \A x \in Threads : Fresh(x)'
    BY <1>1, FreshMoved
  <1>3. (\A h \in 1 .. Len(sock') : SockOk(h)') /\ Owned'
    BY SocketsKept
  <1> QED
    BY <1>2, <1>3 DEF Sockets

LEMMA SocketsReply == ASSUME Typed, Places, Sockets, NEW c \in Threads, ReplyStep(c) PROVE Sockets'
  <1>1. hand = c /\ hand' = NoOne /\ Answered(c, cl[c].fd) /\ sock' = sock /\ peer' = peer
    BY DEF ReplyStep
  <1>2. (\A h \in 1 .. Len(sock') : SockOk(h)') /\ Owned'
    BY <1>1, SocketsKept
  <1>3. cl[c].op # "Listen"
    BY <1>1 DEF Places, Seat
  <1>4. ASSUME NEW x \in Threads PROVE Fresh(x)'
    <2>1. Fresh(x) /\ x # NoOne
      BY <1>4, SyncAssumption DEF Sockets, NoOne, Threads
    <2>2. CASE x # c
      <3>1. cl'[x] = cl[x]
        BY <1>1, <2>2 DEF Answered
      <3> QED
        BY <1>1, <2>1, <3>1 DEF Fresh
    <2>3. CASE x = c
      <3>1. sock[cl[c].fd].st # "listen" /\ cl'[c].fd = cl[c].fd
        BY <1>1, <1>3, <2>1, <2>3 DEF Fresh, Answered
      <3> QED
        BY <1>1, <2>3, <3>1 DEF Fresh
    <2> QED
      BY <2>2, <2>3
  <1> QED
    BY <1>2, <1>4 DEF Sockets

(* TCP gives the peer a socket, or has no need to. *)
LEMMA SocketsTcp ==
  ASSUME Typed, Sockets, NEW p \in Peers, TcpStep(p)
  PROVE  /\ (\A h \in 1 .. Len(sock') : SockOk(h)') /\ Owned'
         /\ \A h \in 1 .. Len(sock) : sock'[h].st = "listen" => sock[h].st = "listen"
  <1>1. CASE UNCHANGED <<sock, peer>>
    BY <1>1, SocketsKept
  <1>2. ASSUME NEW m \in 1 .. Len(sock), Bound(p, m)
        PROVE  /\ (\A h \in 1 .. Len(sock') : SockOk(h)') /\ Owned'
               /\ \A h \in 1 .. Len(sock) : sock'[h].st = "listen" => sock[h].st = "listen"
    <2>1. /\ Len(sock') = Len(sock) /\ \A h \in 1 .. Len(sock) : h # m => sock'[h] = sock[h]
          /\ sock'[m].st = "established" /\ sock'[m].peer = {p} /\ sock[m].st = "listen"
          /\ \A h \in 1 .. Len(sock) : sock[h].peer # {p}
          /\ \A q \in Peers : q # p => peer'[q] = peer[q]
          /\ peer'[p].st = "established"
      BY <1>2 DEF Bound
    <2>2. \A h \in 1 .. Len(sock') : SockOk(h)'
      BY <2>1 DEF Sockets, SockOk
    <2>3. sock[m].peer = {}
      BY <1>2, <2>1 DEF Sockets, SockOk
    <2>4. \A h \in 1 .. Len(sock), q \in Peers : Owner(h, q)' <=> (h = m /\ q = p) \/ Owner(h, q)
      <3>1. \A q \in Peers : {q} # {} /\ ({q} = {p} <=> q = p)
        OBVIOUS
      <3> QED
        BY <2>1, <2>3, <3>1 DEF Owner
    <2>5. \A h \in 1 .. Len(sock) : ~Owner(h, p)
      BY <2>1 DEF Owner
    <2>6. \A q \in Peers : ~Owner(m, q)
      BY <2>3 DEF Owner
    <2>7. Owned'
      BY <1>2, <2>1, <2>4, <2>5, <2>6 DEF Sockets, Owned
    <2> QED
      BY <2>1, <2>2, <2>7
  <1> QED
    BY <1>1, <1>2 DEF TcpStep

LEMMA SocketsSyn == ASSUME Typed, Places, Sockets, NEW p \in Peers, SynStep(p) PROVE Sockets'
  <1>1. /\ (\A h \in 1 .. Len(sock') : SockOk(h)') /\ Owned'
        /\ \A h \in 1 .. Len(sock) : sock'[h].st = "listen" => sock[h].st = "listen"
    BY SocketsTcp DEF SynStep
  <1>2. hand' = hand
    BY DEF SynStep, Taken
  <1>3. ASSUME NEW x \in Threads PROVE Fresh(x)'
    <2>1. CASE cl'[x] = cl[x]
      <3>1. cl[x].op # "Listen" => cl[x].fd \in 1 .. Len(sock)
        BY <1>3, GivenSocket
      <3>2. Fresh(x)
        BY <1>3 DEF Sockets
      <3> QED
        BY <1>1, <1>2, <2>1, <3>1, <3>2 DEF Fresh
    <2>2. CASE cl'[x] # cl[x]
      <3>1. /\ waiting # <<>> /\ Len(waiting') = Len(waiting) - 1
            /\ \A k \in 1 .. Len(waiting') : waiting'[k] = waiting[k + 1]
            /\ Answered(waiting[1].thread, waiting[1].handle)
        BY <2>2 DEF SynStep, TableStep
      <3>2. x = waiting[1].thread
        BY <1>3, <2>2, <3>1 DEF Answered
      <3>3. Waits(x) /\ Seat(x)
        BY <1>3, <3>1, <3>2, FirstGoes DEF Places
      <3>4. cl[x].op = "Listen" /\ hand # x /\ cl[x].seen = 0
        BY <1>3, <3>3 DEF Seat, Typed
      <3>5. cl'[x].op = "Recv" /\ cl'[x].seen = 0
        BY <3>1, <3>2, <3>4 DEF Answered
      <3> QED
        BY <1>2, <3>4, <3>5 DEF Fresh
    <2> QED
      BY <2>1, <2>2
  <1> QED
    BY <1>1, <1>3 DEF Sockets

(* Steps of the network, and the frames that are not SYNs. *)
LEMMA FreshKept ==
  ASSUME Typed, Sockets, UNCHANGED <<hand, cl>>,
         \A h \in 1 .. Len(sock) : sock'[h].st = "listen" => sock[h].st = "listen"
  PROVE  \A x \in Threads : Fresh(x)'
  <1> SUFFICES ASSUME NEW x \in Threads PROVE Fresh(x)'
    OBVIOUS
  <1>1. Fresh(x) /\ (cl[x].op # "Listen" => cl[x].fd \in 1 .. Len(sock))
    BY GivenSocket DEF Sockets
  <1> QED
    BY <1>1 DEF Fresh

LEMMA SocketsData == ASSUME Typed, Sockets, NEW p \in Peers, DataStep(p) PROVE Sockets'
  <1>1. /\ Len(sock') = Len(sock) /\ UNCHANGED <<hand, cl, peer>>
        /\ \A h \in 1 .. Len(sock) :
              /\ sock'[h].st = sock[h].st /\ sock'[h].peer = sock[h].peer
              /\ sock[h].peer # {p} => sock'[h].rx = sock[h].rx
    BY DEF DataStep, Taken
  <1>2. {p} # {}
    OBVIOUS
  <1>3. (\A h \in 1 .. Len(sock') : SockOk(h)') /\ Owned'
    BY <1>1, <1>2, SocketsKept
  <1>4. \A x \in Threads : Fresh(x)'
    BY <1>1, FreshKept
  <1> QED
    BY <1>3, <1>4 DEF Sockets

LEMMA SocketsReset == ASSUME Typed, Sockets, NEW p \in Peers, ResetStep(p) PROVE Sockets'
  <1>1. /\ Len(sock') = Len(sock) /\ UNCHANGED <<hand, cl, peer>>
        /\ \A h \in 1 .. Len(sock) :
              /\ sock'[h].peer = sock[h].peer /\ sock'[h].rx = sock[h].rx
              /\ sock'[h].st = IF sock[h].peer = {p} THEN "closed" ELSE sock[h].st
    BY DEF ResetStep, Taken
  <1>2. {p} # {}
    OBVIOUS
  <1>3. \A h \in 1 .. Len(sock') : SockOk(h)'
    BY <1>1, <1>2 DEF Sockets, SockOk
  <1>4. Owned'
    BY <1>1, OwnedKept DEF Sockets
  <1>5. \A x \in Threads : Fresh(x)'
    BY <1>1, FreshKept
  <1> QED
    BY <1>3, <1>4, <1>5 DEF Sockets

LEMMA SocketsPeer ==
  ASSUME Typed, Sockets, NEW p \in Peers, NEW v, NEW w, NEW type, PeerStep(p, v, w, type),
         v \in {"established", "reset"} <=> w \in {"established", "reset"}
  PROVE  Sockets'
  <1>1. /\ UNCHANGED <<hand, cl, sock>> /\ peer[p].st = v /\ peer'[p].st = w
        /\ \A q \in Peers : q # p => peer'[q] = peer[q]
    BY DEF PeerStep
  <1>2. \A h \in 1 .. Len(sock') : SockOk(h)'
    BY <1>1 DEF Sockets, SockOk
  <1>3. \A q \in Peers : peer'[q].st \in {"established", "reset"} <=>
                         peer[q].st \in {"established", "reset"}
    BY <1>1
  <1>4. Owned'
    BY <1>1, <1>3, OwnedKept DEF Sockets
  <1>5. \A x \in Threads : Fresh(x)'
    BY <1>1, FreshKept
  <1> QED
    BY <1>2, <1>4, <1>5 DEF Sockets

LEMMA SocketsNext == ASSUME Typed, Places, Loops, Sockets, Steps PROVE Sockets'
  <1>1. CASE IdleStep \/ PurgeStep
    <2>1. UNCHANGED <<hand, cl, sock, peer>>
      BY <1>1 DEF IdleStep, PurgeStep
    <2> QED
      BY <2>1, SocketsKept, FreshKept DEF Sockets
  <1>2. ASSUME NEW c \in Threads, ThreadMove(c) \/ ParkStep(c) \/ CutStep(c) \/ SendStep(c)
        PROVE  Sockets'
    <2>1. /\ sock' = sock /\ (Moved(c, "sending") \/ Moved(c, "recv") \/ Moved(c, "sent"))
          /\ \A p \in Peers : peer'[p].st = peer[p].st
          /\ hand' = hand \/ (hand' = c /\ cl[c].op \in {"Send", "Bye"})
      BY <1>2 DEF ThreadMove, ParkStep, CutStep, SendStep
    <2> QED
      BY <2>1, SocketsMoved
  <1>3. ASSUME NEW c \in Threads, GetStep(c) PROVE Sockets'
    BY <1>3, SocketsRead DEF GetStep
  <1>4. ASSUME NEW c \in Threads, TaskStep(c), Blocked(c) PROVE Sockets'
    BY <1>4, SocketsRead DEF TaskStep, Places, Seat
  <1>5. ASSUME NEW p \in Peers, ConnectStep(p) \/ RetransmitStep(p) \/ BurstStep(p)
                                \/ PeerStep(p, "established", "reset", "RST")
        PROVE  Sockets'
    BY <1>5, SocketsPeer DEF ConnectStep, RetransmitStep, BurstStep
  <1> QED
    BY <1>1, <1>2, <1>3, <1>4, <1>5, SocketsListen, SocketsReply, SocketsSyn, SocketsData,
       SocketsReset, PlacesTask DEF Steps

-----------------------------------------------------------------------------
(* Counting the frames of a kind. *)

LEMMA CountAppend ==
  ASSUME NEW S, NEW s \in Seq(S), NEW e \in S, NEW M
  PROVE  /\ IsFiniteSet(At(s, M)) /\ Cardinality(At(s, M)) \in Nat
         /\ At(Append(s, e), M) = At(s, M) \cup (IF e \in M THEN {Len(s) + 1} ELSE {})
         /\ Cardinality(At(Append(s, e), M)) = Cardinality(At(s, M)) + (IF e \in M THEN 1 ELSE 0)
  <1>1. Len(s) \in Nat
    BY LenProperties
  <1>2. /\ Len(Append(s, e)) = Len(s) + 1 /\ Append(s, e)[Len(s) + 1] = e
        /\ \A k \in 1 .. Len(s) : Append(s, e)[k] = s[k]
    BY AppendProperties
  <1>3. IsFiniteSet(At(s, M))
    <2>1. IsFiniteSet(1 .. Len(s)) /\ At(s, M) \in SUBSET (1 .. Len(s))
      BY <1>1, FS_Interval DEF At
    <2> QED
      BY <2>1, FS_Subset
  <1>4. Cardinality(At(s, M)) \in Nat
    BY <1>3, FS_CardinalityType
  <1>5. At(Append(s, e), M) = At(s, M) \cup (IF e \in M THEN {Len(s) + 1} ELSE {})
    <2>1. \A k : k \in 1 .. Len(s) + 1 <=> k \in 1 .. Len(s) \/ k = Len(s) + 1
      BY <1>1
    <2>2. Len(s) + 1 \notin 1 .. Len(s)
      BY <1>1
    <2> QED
      BY <1>2, <2>1, <2>2 DEF At
  <1>6. Len(s) + 1 \notin At(s, M)
    BY <1>1 DEF At
  <1>7. Cardinality(At(s, M) \cup {Len(s) + 1}) = Cardinality(At(s, M)) + 1
    BY <1>3, <1>6, FS_AddElement
  <1>8. e \notin M => At(Append(s, e), M) = At(s, M)
    BY <1>5
  <1>9. e \in M => At(Append(s, e), M) = At(s, M) \cup {Len(s) + 1}
    BY <1>5
  <1>10. Cardinality(At(Append(s, e), M)) = Cardinality(At(s, M)) + (IF e \in M THEN 1 ELSE 0)
    <2>1. CASE e \in M
      BY <1>7, <1>9, <2>1
    <2>2. CASE e \notin M
      BY <1>4, <1>8, <2>2
    <2> QED
      BY <2>1, <2>2
  <1> QED
    BY <1>3, <1>4, <1>5, <1>10

LEMMA CountTail ==
  ASSUME NEW S, NEW s \in Seq(S), s # <<>>, NEW M
  PROVE  /\ \A k \in At(Tail(s), M) : k + 1 \in At(s, M)
         /\ Cardinality(At(Tail(s), M)) =
               IF Head(s) \in M THEN Cardinality(At(s, M)) - 1 ELSE Cardinality(At(s, M))
         /\ Cardinality(At(s, M)) \in Nat
         /\ Head(s) \in M => Cardinality(At(s, M)) # 0
  <1> DEFINE T == At(Tail(s), M)
             A == At(s, M)
             B == A \ {1}
             f == [k \in T |-> k + 1]
  <1>1. Len(s) \in Nat \ {0} /\ Head(s) = s[1] /\ 1 \in 1 .. Len(s)
    BY EmptySeq
  <1>2. Len(Tail(s)) = Len(s) - 1 /\ \A k \in 1 .. Len(Tail(s)) : Tail(s)[k] = s[k + 1]
    BY HeadTailProperties
  <1>3. \A k \in 1 .. Len(s) - 1 : k + 1 \in 1 .. Len(s) /\ k + 1 # 1
    BY <1>1
  <1>4. \A k \in T : k \in 1 .. Len(s) - 1 /\ k + 1 \in B
    BY <1>2, <1>3 DEF At
  <1>5. \A j \in B : \E k \in T : k + 1 = j
    <2> SUFFICES ASSUME NEW j \in B PROVE j - 1 \in T /\ (j - 1) + 1 = j
      OBVIOUS
    <2>1. j \in 1 .. Len(s) /\ j # 1 /\ s[j] \in M
      BY DEF At
    <2>2. j - 1 \in 1 .. Len(s) - 1 /\ (j - 1) + 1 = j
      BY <1>1, <2>1
    <2> QED
      BY <1>2, <2>1, <2>2 DEF At
  <1>6. IsFiniteSet(A) /\ IsFiniteSet(T)
    <2>1. IsFiniteSet(1 .. Len(s)) /\ IsFiniteSet(1 .. Len(s) - 1)
      BY <1>1, FS_Interval
    <2>2. A \in SUBSET (1 .. Len(s)) /\ T \in SUBSET (1 .. Len(s) - 1)
      BY <1>2 DEF At
    <2> QED
      BY <2>1, <2>2, FS_Subset
  <1>7. ExistsBijection(T, B)
    <2>1. \A i, j \in T : i + 1 = j + 1 => i = j
      BY <1>1, <1>4
    <2>2. f \in [T -> B]
      BY <1>4
    <2>3. f \in Injection(T, B)
      BY <2>1, <2>2 DEF Injection, IsInjective
    <2>4. f \in Surjection(T, B)
      BY <1>5, <2>2 DEF Surjection
    <2>5. f \in Bijection(T, B)
      BY <2>3, <2>4 DEF Bijection
    <2> QED
      BY <2>5 DEF ExistsBijection
  <1>8. Cardinality(T) = Cardinality(B)
    <2> HIDE DEF T, B
    <2> QED
      BY <1>6, <1>7, FS_Bijection
  <1>9. Cardinality(B) = IF 1 \in A THEN Cardinality(A) - 1 ELSE Cardinality(A)
    <2> HIDE DEF A
    <2> QED
      BY <1>6, FS_RemoveElement
  <1>10. 1 \in A <=> Head(s) \in M
    BY <1>1 DEF At
  <1>11. Cardinality(A) \in Nat /\ (1 \in A => Cardinality(A) # 0)
    <2> HIDE DEF A
    <2> QED
      BY <1>6, FS_CardinalityType, FS_EmptySet
  <1> QED
    BY <1>4, <1>8, <1>9, <1>10, <1>11

-----------------------------------------------------------------------------
(* The SYNs in the device. *)

(* A Listen waiting with its thread in ep.recv stays so until it is        *)
(* answered.                                                               *)
LEMMA ReceivingKept ==
  ASSUME Typed, Places, Loops, Steps, NEW t \in Threads, Waits(t), cl[t].st = "recv", Waits(t)'
  PROVE  cl'[t].st = "recv"
  <1>1. Seat(t) /\ cl[t].op = "Listen" /\ hand # t
    BY DEF Places, Seat
  <1>2. CASE cl' = cl
    BY <1>2
  <1>3. ASSUME NEW c \in Threads, \/ ThreadMove(c) \/ ListenStep(c) \/ GetStep(c) \/ ParkStep(c)
                                  \/ SendStep(c) \/ CutStep(c) \/ TaskStep(c) \/ ReplyStep(c)
        PROVE  cl'[t].st = "recv"
    <2>1. CASE c # t
      BY <1>3, <2>1 DEF ThreadMove, ListenStep, GetStep, ParkStep, SendStep, CutStep, TaskStep,
                        ReplyStep, Moved, Answered
    <2>2. CASE c = t
      <3>1. TaskStep(c)
        BY <1>1, <1>3, <2>2 DEF ThreadMove, ListenStep, GetStep, ParkStep, SendStep, CutStep, ReplyStep
      <3> QED
        BY <2>2, <3>1 DEF TaskStep, Moved
    <2> QED
      BY <2>1, <2>2
  <1>4. ASSUME NEW p \in Peers, SynStep(p), cl' # cl PROVE cl'[t].st = "recv"
    <2>1. /\ waiting # <<>> /\ Len(waiting') = Len(waiting) - 1
          /\ \A k \in 1 .. Len(waiting') : waiting'[k] = waiting[k + 1]
          /\ Answered(waiting[1].thread, waiting[1].handle)
      BY <1>4 DEF SynStep, TableStep
    <2>2. t # waiting[1].thread
      BY <2>1, FirstGoes DEF Places
    <2> QED
      BY <2>1, <2>2 DEF Answered
  <1>5. ASSUME NEW p \in Peers, \/ DataStep(p) \/ ResetStep(p) \/ ConnectStep(p)
                \/ RetransmitStep(p) \/ BurstStep(p) \/ PeerStep(p, "established", "reset", "RST")
        PROVE  cl' = cl
    BY <1>5 DEF DataStep, ResetStep, ConnectStep, RetransmitStep, BurstStep, PeerStep
  <1> QED
    BY <1>2, <1>3, <1>4, <1>5 DEF Steps, IdleStep, PurgeStep

(* What becomes of the rows of the listen table. *)
LEMMA RowsKept ==
  ASSUME Typed, Typed', Places, Loops, Steps
  PROVE  \/ /\ waiting' = waiting
            /\ \A k \in 1 .. Len(waiting) : Receiving(k) => Receiving(k)'
         \/ /\ \E p \in Peers : SynStep(p)
            /\ waiting # <<>> /\ Len(waiting) \in Nat \ {0} /\ Len(waiting') = Len(waiting) - 1
            /\ \A k \in 1 .. Len(waiting') : waiting'[k] = waiting[k + 1]
            /\ \A k \in 1 .. Len(waiting') : Receiving(k + 1) => Receiving(k)'
         \/ /\ \E c \in Threads : ListenStep(c)
            /\ Len(waiting) \in Nat /\ Len(waiting') = Len(waiting) + 1
            /\ \A k \in 1 .. Len(waiting) : waiting'[k] = waiting[k]
            /\ \A k \in 1 .. Len(waiting) : Receiving(k) => Receiving(k)'
  <1>1. \A k \in 1 .. Len(waiting) : waiting[k].thread \in Threads /\ Waits(waiting[k].thread)
    BY TypedSeqs DEF WaitSet, Waits
  <1>2. ASSUME NEW k \in 1 .. Len(waiting), NEW i \in 1 .. Len(waiting'), waiting'[i] = waiting[k]
        PROVE  Receiving(k) => Receiving(i)'
    <2>1. PICK t \in Threads : t = waiting[k].thread
      BY <1>1
    <2>2. Waits(t) /\ Waits(t)'
      BY <1>2, <2>1 DEF Waits
    <2>3. cl[t].st = "recv" => cl'[t].st = "recv"
      BY <2>2, ReceivingKept
    <2> QED
      BY <1>2, <2>1, <2>3 DEF Receiving
  <1>3. Len(waiting) \in Nat
    BY TypedSeqs
  <1>4. CASE waiting' = waiting
    <2>1. \A k \in 1 .. Len(waiting) : Receiving(k) => Receiving(k)'
      BY <1>2, <1>4
    <2> QED
      BY <1>4, <2>1
  <1>5. ASSUME NEW p \in Peers, SynStep(p), waiting' # waiting
        PROVE  /\ waiting # <<>> /\ Len(waiting) \in Nat \ {0} /\ Len(waiting') = Len(waiting) - 1
               /\ \A k \in 1 .. Len(waiting') : waiting'[k] = waiting[k + 1]
               /\ \A k \in 1 .. Len(waiting') : Receiving(k + 1) => Receiving(k)'
    <2>1. /\ waiting # <<>> /\ Len(waiting') = Len(waiting) - 1
          /\ \A k \in 1 .. Len(waiting') : waiting'[k] = waiting[k + 1]
      BY <1>5 DEF SynStep, TableStep
    <2>2. Len(waiting) \in Nat \ {0} /\ \A k \in 1 .. Len(waiting') : k + 1 \in 1 .. Len(waiting)
      BY <2>1, FirstGoes DEF Places
    <2>3. \A k \in 1 .. Len(waiting') : Receiving(k + 1) => Receiving(k)'
      BY <1>2, <2>1, <2>2
    <2> QED
      BY <2>1, <2>2, <2>3
  <1>6. ASSUME NEW c \in Threads, ListenStep(c)
        PROVE  /\ Len(waiting') = Len(waiting) + 1
               /\ \A k \in 1 .. Len(waiting) : waiting'[k] = waiting[k]
               /\ \A k \in 1 .. Len(waiting) : Receiving(k) => Receiving(k)'
    <2>1. /\ Len(waiting') = Len(waiting) + 1
          /\ \A k \in 1 .. Len(waiting) : waiting'[k] = waiting[k]
      BY <1>6 DEF ListenStep
    <2>2. \A k \in 1 .. Len(waiting) : k \in 1 .. Len(waiting')
      BY <1>3, <2>1
    <2>3. \A k \in 1 .. Len(waiting) : Receiving(k) => Receiving(k)'
      BY <1>2, <2>1, <2>2
    <2> QED
      BY <2>1, <2>3
  <1>7. waiting' = waiting \/ (\E p \in Peers : SynStep(p)) \/ \E c \in Threads : ListenStep(c)
    BY DEF Steps, IdleStep, PurgeStep, ThreadMove, GetStep, ParkStep, SendStep, CutStep, TaskStep,
           ReplyStep, DataStep, ResetStep, ConnectStep, RetransmitStep, BurstStep, PeerStep
  <1> QED
    BY <1>3, <1>4, <1>5, <1>6, <1>7

(* What the steps do to the SYNs and to the peers. *)
SynsAlone ==
    /\ SynSent' = SynSent
    /\ \A q \in Peers : peer'[q].st = "idle" <=> peer[q].st = "idle"
    /\ frames' = frames
       \/ (frames # <<>> /\ frames' = Tail(frames) /\ Head(frames).type # "SYN")
       \/ \E f \in FrameSet : frames' = Append(frames, f) /\ f.type # "SYN"
                              /\ peer[f.peer].st # "idle"

SynTaken(p) ==
    /\ frames # <<>> /\ frames' = Tail(frames) /\ Head(frames).type = "SYN" /\ Head(frames).peer = p
    /\ \A q \in Peers : q # p => peer'[q].st = peer[q].st
    /\ peer'[p].st \in {peer[p].st, "established"}

SynComes(p, w) ==
    /\ \E f \in FrameSet : frames' = Append(frames, f) /\ f.type = "SYN" /\ f.peer = p
    /\ \A q \in Peers : q # p => peer'[q].st = peer[q].st
    /\ peer'[p].st = w

LEMMA SynCases ==
  ASSUME Typed, Steps
  PROVE  \/ SynsAlone
         \/ \E p \in Peers : SynStep(p) /\ SynTaken(p)
         \/ \E p \in Peers : ConnectStep(p) /\ peer[p].st = "idle" /\ SynComes(p, "syn_sent")
         \/ \E p \in Peers : "retransmit" \in faults /\ peer[p].st = "syn_sent" /\ SynComes(p, "syn_resent")
  <1>1. CASE frames' = frames /\ \A q \in Peers : peer'[q].st = peer[q].st
    BY <1>1 DEF SynsAlone, SynSent
  <1>2. ASSUME NEW p \in Peers, DataStep(p) \/ ResetStep(p) PROVE SynsAlone
    BY <1>2 DEF DataStep, ResetStep, Taken, SynsAlone, SynSent
  <1>3. ASSUME NEW p \in Peers, BurstStep(p) \/ PeerStep(p, "established", "reset", "RST")
        PROVE  SynsAlone
    <2>1. PICK type \in {"DATA", "RST"}, w \in {"established", "reset"} :
             PeerStep(p, "established", w, type)
      BY <1>3 DEF BurstStep
    <2>2. /\ peer[p].st = "established" /\ peer'[p].st = w
          /\ \A q \in Peers : q # p => peer'[q] = peer[q]
          /\ \E f \in FrameSet : f.type = type /\ f.peer = p /\ frames' = Append(frames, f)
      BY <2>1 DEF PeerStep
    <2>3. SynSent' = SynSent /\ \A q \in Peers : peer'[q].st = "idle" <=> peer[q].st = "idle"
      BY <2>2 DEF SynSent
    <2> QED
      BY <2>2, <2>3 DEF SynsAlone
  <1>4. ASSUME NEW p \in Peers, SynStep(p) PROVE SynTaken(p)
    BY <1>4 DEF SynStep, Taken, TcpStep, Bound, SynTaken
  <1>5. ASSUME NEW p \in Peers, ConnectStep(p) PROVE peer[p].st = "idle" /\ SynComes(p, "syn_sent")
    BY <1>5 DEF ConnectStep, PeerStep, SynComes
  <1>6. ASSUME NEW p \in Peers, RetransmitStep(p)
        PROVE  "retransmit" \in faults /\ peer[p].st = "syn_sent" /\ SynComes(p, "syn_resent")
    BY <1>6 DEF RetransmitStep, PeerStep, SynComes
  <1>7. \/ frames' = frames /\ \A q \in Peers : peer'[q].st = peer[q].st
        \/ \E p \in Peers : \/ SynStep(p) \/ DataStep(p) \/ ResetStep(p) \/ ConnectStep(p)
                            \/ RetransmitStep(p) \/ BurstStep(p)
                            \/ PeerStep(p, "established", "reset", "RST")
    BY DEF Steps, IdleStep, PurgeStep, ThreadMove, ListenStep, GetStep, ParkStep, SendStep, CutStep,
           TaskStep, ReplyStep
  <1> QED
    BY <1>1, <1>2, <1>3, <1>4, <1>5, <1>6, <1>7

LEMMA FrameFacts ==
  ASSUME Typed
  PROVE  /\ Len(frames) \in Nat
         /\ \A k \in 1 .. Len(frames) : frames[k] \in FrameSet /\ frames[k].peer \in Peers
         /\ \A k : k \in SynAt <=> k \in 1 .. Len(frames) /\ frames[k].type = "SYN"
  <1>1. Len(frames) \in Nat /\ \A k \in 1 .. Len(frames) : frames[k] \in FrameSet
    BY TypedSeqs
  <1>2. \A k \in 1 .. Len(frames) : frames[k].peer \in Peers
    BY <1>1 DEF FrameSet
  <1> QED
    BY <1>1, <1>2 DEF SynAt, At, SynFrames

LEMMA TailFrames ==
  ASSUME Typed, frames # <<>>, frames' = Tail(frames)
  PROVE  /\ \A k \in 1 .. Len(frames') : k + 1 \in 1 .. Len(frames) /\ frames'[k] = frames[k + 1]
         /\ \A k \in SynAt' : k + 1 \in SynAt /\ k + 1 # 1 /\ k \in Nat /\ k \in 1 .. Len(frames')
         /\ Head(frames) = frames[1] /\ 1 \in 1 .. Len(frames)
         /\ Cardinality(SynAt) \in Nat
         /\ Head(frames).type = "SYN" => /\ 1 \in SynAt /\ Cardinality(SynAt) # 0
                                         /\ Cardinality(SynAt') = Cardinality(SynAt) - 1
         /\ Head(frames).type # "SYN" => Cardinality(SynAt') = Cardinality(SynAt)
  <1>1. frames \in Seq(FrameSet) /\ Len(frames) \in Nat \ {0}
    BY EmptySeq DEF Typed
  <1>2. /\ Head(frames) \in FrameSet /\ Len(frames') = Len(frames) - 1 /\ Head(frames) = frames[1]
        /\ \A k \in 1 .. Len(frames') : frames'[k] = frames[k + 1]
    BY <1>1, HeadTailProperties
  <1>3. \A k \in 1 .. Len(frames') : k + 1 \in 1 .. Len(frames) /\ k \in Nat /\ k + 1 # 1
    BY <1>1, <1>2
  <1>4. Head(frames) \in SynFrames <=> Head(frames).type = "SYN"
    BY <1>2 DEF SynFrames
  <1>5. /\ \A k \in At(Tail(frames), SynFrames) : k + 1 \in At(frames, SynFrames)
        /\ Cardinality(At(Tail(frames), SynFrames)) =
              IF Head(frames) \in SynFrames THEN Cardinality(At(frames, SynFrames)) - 1
                                            ELSE Cardinality(At(frames, SynFrames))
        /\ Cardinality(At(frames, SynFrames)) \in Nat
        /\ Head(frames) \in SynFrames => Cardinality(At(frames, SynFrames)) # 0
    BY <1>1, CountTail
  <1>6. SynAt' = At(Tail(frames), SynFrames) /\ SynAt = At(frames, SynFrames)
    BY DEF SynAt, SynFrames, FrameSet, At
  <1>7. \A k \in SynAt' : k \in 1 .. Len(frames')
    BY DEF SynAt, At
  <1>8. 1 \in 1 .. Len(frames) /\ (Head(frames).type = "SYN" => 1 \in SynAt)
    BY <1>1, <1>2, FrameFacts
  <1>9. \A k \in SynAt' : k + 1 \in SynAt /\ k + 1 # 1 /\ k \in Nat /\ k \in 1 .. Len(frames')
    BY <1>3, <1>5, <1>6, <1>7
  <1> QED
    BY <1>2, <1>3, <1>4, <1>5, <1>6, <1>8, <1>9

LEMMA AppendFrames ==
  ASSUME Typed, NEW f \in FrameSet, frames' = Append(frames, f)
  PROVE  /\ Len(frames') = Len(frames) + 1 /\ Len(frames) \in Nat /\ frames'[Len(frames) + 1] = f
         /\ \A k \in 1 .. Len(frames) : frames'[k] = frames[k]
         /\ Cardinality(SynAt) \in Nat
         /\ f.type = "SYN" => /\ SynAt' = SynAt \cup {Len(frames) + 1}
                              /\ Cardinality(SynAt') = Cardinality(SynAt) + 1
         /\ f.type # "SYN" => SynAt' = SynAt
  <1>1. frames \in Seq(FrameSet) /\ Len(frames) \in Nat
    BY LenProperties DEF Typed
  <1>2. /\ Len(frames') = Len(frames) + 1 /\ frames'[Len(frames) + 1] = f
        /\ \A k \in 1 .. Len(frames) : frames'[k] = frames[k]
    BY <1>1, AppendProperties
  <1>3. f \in SynFrames <=> f.type = "SYN"
    BY DEF SynFrames
  <1>4. /\ At(Append(frames, f), SynFrames) =
              At(frames, SynFrames) \cup (IF f \in SynFrames THEN {Len(frames) + 1} ELSE {})
        /\ Cardinality(At(Append(frames, f), SynFrames)) =
              Cardinality(At(frames, SynFrames)) + (IF f \in SynFrames THEN 1 ELSE 0)
        /\ Cardinality(At(frames, SynFrames)) \in Nat
    BY <1>1, CountAppend
  <1>5. SynAt' = At(Append(frames, f), SynFrames) /\ SynAt = At(frames, SynFrames)
    BY DEF SynAt, SynFrames, FrameSet, At
  <1>6. CASE f.type = "SYN"
    BY <1>1, <1>2, <1>3, <1>4, <1>5, <1>6
  <1>7. CASE f.type # "SYN"
    BY <1>1, <1>2, <1>3, <1>4, <1>5, <1>7
  <1> QED
    BY <1>6, <1>7

LEMMA SynOnceAlone == ASSUME Typed, SynOnce, SynsAlone, faults' = faults PROVE SynOnce'
  <1>0. SynSent' = SynSent /\ \A q \in Peers : peer'[q].st = "idle" <=> peer[q].st = "idle"
    BY DEF SynsAlone
  <1>1. CASE frames' = frames
    <2>1. SynAt' = SynAt
      BY <1>1 DEF SynAt, At, SynFrames, FrameSet
    <2>2. Unrepeated => Unrepeated'
      BY <1>0, <1>1, <2>1 DEF Unrepeated
    <2>3. Known => Known'
      BY <1>0, <1>1, FrameFacts DEF Known
    <2> QED
      BY <1>0, <2>2, <2>3 DEF SynOnce
  <1>2. CASE frames # <<>> /\ frames' = Tail(frames) /\ Head(frames).type # "SYN"
    <2>1. /\ \A k \in 1 .. Len(frames') : k + 1 \in 1 .. Len(frames) /\ frames'[k] = frames[k + 1]
          /\ \A k \in SynAt' : k + 1 \in SynAt /\ k \in Nat /\ k \in 1 .. Len(frames')
      BY <1>2, TailFrames
    <2>2. Unrepeated => Unrepeated'
      <3> SUFFICES ASSUME Unrepeated, NEW i \in SynAt', NEW j \in SynAt'
                   PROVE  frames'[i].peer \in SynSent' /\ (frames'[i].peer = frames'[j].peer => i = j)
        BY DEF Unrepeated
      <3>1. /\ i + 1 \in SynAt /\ j + 1 \in SynAt /\ i \in Nat /\ j \in Nat
            /\ frames'[i] = frames[i + 1] /\ frames'[j] = frames[j + 1]
        BY <2>1
      <3>2. frames[i + 1].peer \in SynSent /\ (frames[i + 1].peer = frames[j + 1].peer => i + 1 = j + 1)
        BY <3>1 DEF Unrepeated
      <3> QED
        BY <1>0, <3>1, <3>2
    <2>3. Known => Known'
      BY <1>0, <2>1, FrameFacts DEF Known
    <2> QED
      BY <1>0, <2>2, <2>3 DEF SynOnce
  <1>3. ASSUME NEW f \in FrameSet, frames' = Append(frames, f), f.type # "SYN", peer[f.peer].st # "idle"
        PROVE  SynOnce'
    <2>1. /\ Len(frames') = Len(frames) + 1 /\ Len(frames) \in Nat /\ frames'[Len(frames) + 1] = f
          /\ \A k \in 1 .. Len(frames) : frames'[k] = frames[k]
          /\ SynAt' = SynAt
      BY <1>3, AppendFrames
    <2>2. \A k \in SynAt : k \in 1 .. Len(frames)
      BY DEF SynAt, At
    <2>3. Unrepeated => Unrepeated'
      BY <1>0, <2>1, <2>2 DEF Unrepeated
    <2>4. f.peer \in Peers
      BY DEF FrameSet
    <2>5. \A k \in 1 .. Len(frames') : k \in 1 .. Len(frames) \/ k = Len(frames) + 1
      BY <2>1
    <2>6. Known => Known'
      BY <1>0, <1>3, <2>1, <2>4, <2>5, FrameFacts DEF Known
    <2> QED
      BY <1>0, <2>3, <2>6 DEF SynOnce
  <1> QED
    BY <1>1, <1>2, <1>3 DEF SynsAlone

LEMMA SynOnceTaken ==
  ASSUME Typed, SynOnce, NEW p \in Peers, SynTaken(p), faults' = faults
  PROVE  SynOnce'
  <1>1. /\ \A k \in 1 .. Len(frames') : k + 1 \in 1 .. Len(frames) /\ frames'[k] = frames[k + 1]
        /\ \A k \in SynAt' : k + 1 \in SynAt /\ k + 1 # 1 /\ k \in Nat /\ k \in 1 .. Len(frames')
        /\ 1 \in SynAt /\ frames[1].peer = p
    BY TailFrames DEF SynTaken
  <1>2. /\ \A q \in Peers : q # p => peer'[q].st = peer[q].st
        /\ peer'[p].st \in {peer[p].st, "established"}
    BY DEF SynTaken
  <1>3. IsFiniteSet(SynSent')
    <2>1. SynSent' \in SUBSET SynSent
      BY <1>2 DEF SynSent
    <2> QED
      BY <2>1, FS_Subset DEF SynOnce
  <1>4. Known => Known'
    BY <1>1, <1>2, FrameFacts DEF Known
  <1>5. Unrepeated => Unrepeated'
    <2> SUFFICES ASSUME Unrepeated, NEW i \in SynAt', NEW j \in SynAt'
                 PROVE  frames'[i].peer \in SynSent' /\ (frames'[i].peer = frames'[j].peer => i = j)
      BY DEF Unrepeated
    <2>1. /\ i + 1 \in SynAt /\ j + 1 \in SynAt /\ i \in Nat /\ j \in Nat /\ i + 1 # 1
          /\ frames'[i] = frames[i + 1] /\ frames'[j] = frames[j + 1]
      BY <1>1
    <2>2. /\ frames[i + 1].peer \in SynSent /\ frames[i + 1].peer # p
          /\ frames[i + 1].peer = frames[j + 1].peer => i + 1 = j + 1
      BY <1>1, <2>1 DEF Unrepeated
    <2>3. frames[i + 1].peer \in SynSent'
      BY <1>2, <2>2 DEF SynSent
    <2> QED
      BY <2>1, <2>2, <2>3
  <1> QED
    BY <1>3, <1>4, <1>5 DEF SynOnce

LEMMA SynOnceComes ==
  ASSUME Typed, SynOnce, NEW p \in Peers, NEW w, SynComes(p, w), faults' = faults,
         (w = "syn_sent" /\ peer[p].st = "idle") \/ (w = "syn_resent" /\ "retransmit" \in faults)
  PROVE  SynOnce'
  <1>1. PICK f \in FrameSet : frames' = Append(frames, f) /\ f.type = "SYN" /\ f.peer = p
    BY DEF SynComes
  <1>2. /\ Len(frames') = Len(frames) + 1 /\ Len(frames) \in Nat /\ frames'[Len(frames) + 1] = f
        /\ \A k \in 1 .. Len(frames) : frames'[k] = frames[k]
        /\ SynAt' = SynAt \cup {Len(frames) + 1}
    BY <1>1, AppendFrames
  <1>3. peer'[p].st = w /\ \A q \in Peers : q # p => peer'[q].st = peer[q].st
    BY DEF SynComes
  <1>4. IsFiniteSet(SynSent')
    <2>1. SynSent' \in SUBSET (SynSent \cup {p})
      BY <1>3 DEF SynSent
    <2>2. IsFiniteSet(SynSent \cup {p})
      BY FS_AddElement DEF SynOnce
    <2> QED
      BY <2>1, <2>2, FS_Subset
  <1>5. \A k \in 1 .. Len(frames') : k \in 1 .. Len(frames) \/ k = Len(frames) + 1
    BY <1>2
  <1>6. Known => Known'
    BY <1>1, <1>2, <1>3, <1>5, FrameFacts DEF Known
  <1>7. CASE w = "syn_sent" /\ peer[p].st = "idle"
    <2>1. SynSent' = SynSent \cup {p}
      BY <1>3, <1>7 DEF SynSent
    <2>2. \A k \in SynAt : k \in 1 .. Len(frames) /\ frames[k].peer # p
      BY <1>7 DEF SynAt, At, SynOnce, Known
    <2>3. Unrepeated => Unrepeated'
      <3> SUFFICES ASSUME Unrepeated, NEW i \in SynAt', NEW j \in SynAt'
                   PROVE  frames'[i].peer \in SynSent' /\ (frames'[i].peer = frames'[j].peer => i = j)
        BY DEF Unrepeated
      <3>1. \/ i \in SynAt /\ frames'[i] = frames[i] /\ frames[i].peer # p /\ frames[i].peer \in SynSent
            \/ i = Len(frames) + 1 /\ frames'[i].peer = p
        BY <1>1, <1>2, <2>2 DEF Unrepeated
      <3>2. \/ j \in SynAt /\ frames'[j] = frames[j] /\ frames[j].peer # p
            \/ j = Len(frames) + 1 /\ frames'[j].peer = p
        BY <1>1, <1>2, <2>2
      <3> QED
        BY <2>1, <3>1, <3>2 DEF Unrepeated
    <2> QED
      BY <1>4, <1>6, <2>3 DEF SynOnce
  <1>8. CASE "retransmit" \in faults
    BY <1>4, <1>6, <1>8 DEF SynOnce
  <1> QED
    BY <1>7, <1>8

LEMMA SynOnceNext == ASSUME Typed, SynOnce, Steps, faults' = faults PROVE SynOnce'
  BY SynCases, SynOnceAlone, SynOnceTaken, SynOnceComes

(* For each SYN in the device a peer waits for the answer. *)
LEMMA SynBound ==
  ASSUME Typed, SynOnce, "retransmit" \notin faults
  PROVE  Cardinality(SynAt) <= Cardinality(SynSent)
  <1> DEFINE g == [k \in SynAt |-> frames[k].peer]
  <1>1. Unrepeated /\ IsFiniteSet(SynSent)
    BY DEF SynOnce
  <1>2. g \in [SynAt -> SynSent] /\ \A i, j \in SynAt : g[i] = g[j] => i = j
    BY <1>1 DEF Unrepeated
  <1>3. g \in Injection(SynAt, SynSent)
    BY <1>2 DEF Injection, IsInjective
  <1> HIDE DEF g
  <1> QED
    BY <1>1, <1>3, FS_Injection

LEMMA SynCountAlone ==
  ASSUME Typed, SynsAlone
  PROVE  Cardinality(SynAt') = Cardinality(SynAt)
  <1>1. CASE frames' = frames
    <2>1. SynAt' = SynAt
      BY <1>1 DEF SynAt, At, SynFrames, FrameSet
    <2> QED
      BY <2>1
  <1>2. CASE frames # <<>> /\ frames' = Tail(frames) /\ Head(frames).type # "SYN"
    BY <1>2, TailFrames
  <1>3. ASSUME NEW f \in FrameSet, frames' = Append(frames, f), f.type # "SYN"
        PROVE  Cardinality(SynAt') = Cardinality(SynAt)
    <2>1. SynAt' = SynAt
      BY <1>3, AppendFrames
    <2> QED
      BY <2>1
  <1> QED
    BY <1>1, <1>2, <1>3 DEF SynsAlone

LEMMA HeardNext ==
  ASSUME Typed, Typed', Places, Loops, SynOnce, Heard, Steps, faults' = faults
  PROVE  Heard'
  <1> SUFFICES ASSUME "retransmit" \notin faults, "early_syn" \notin faults
               PROVE  /\ Cardinality(SynAt') <= Len(waiting')
                      /\ \A k \in 1 .. Cardinality(SynAt') : Receiving(k)'
    BY DEF Heard
  <1> DEFINE n == Cardinality(SynAt)
             m == Cardinality(SynAt')
  <1>1. n <= Len(waiting) /\ \A k \in 1 .. n : Receiving(k)
    BY DEF Heard
  <1>2. n \in Nat /\ Len(waiting) \in Nat /\ Len(waiting') \in Nat
    <2>1. IsFiniteSet(SynAt)
      <3>1. IsFiniteSet(1 .. Len(frames)) /\ SynAt \in SUBSET (1 .. Len(frames))
        BY FrameFacts, FS_Interval DEF SynAt, At
      <3> QED
        BY <3>1, FS_Subset
    <2> QED
      BY <2>1, TypedSeqs, FS_CardinalityType, LenProperties DEF Typed
  <1>3. ASSUME NEW p \in Peers, SynStep(p) PROVE m <= Len(waiting') /\ \A k \in 1 .. m : Receiving(k)'
    <2>1. m = n - 1 /\ n # 0
      BY <1>3, TailFrames DEF SynStep, Taken
    <2> HIDE DEF n, m
    <2>2. \A k \in 1 .. m : k \in 1 .. n /\ k + 1 \in 1 .. n /\ k \in 1 .. Len(waiting)
      BY <1>1, <1>2, <2>1
    <2>3. CASE /\ Len(waiting') >= Len(waiting)
               /\ \A k \in 1 .. Len(waiting) : Receiving(k) => Receiving(k)'
      BY <1>1, <1>2, <2>1, <2>2, <2>3
    <2>4. CASE /\ Len(waiting') = Len(waiting) - 1
               /\ \A k \in 1 .. Len(waiting') : Receiving(k + 1) => Receiving(k)'
      <3>1. \A k \in 1 .. m : k \in 1 .. Len(waiting')
        BY <1>1, <1>2, <2>1, <2>4
      <3> QED
        BY <1>1, <1>2, <2>1, <2>2, <2>4, <3>1
    <2>5. \/ /\ waiting' = waiting
             /\ \A k \in 1 .. Len(waiting) : Receiving(k) => Receiving(k)'
          \/ /\ Len(waiting') = Len(waiting) - 1
             /\ \A k \in 1 .. Len(waiting') : Receiving(k + 1) => Receiving(k)'
          \/ /\ Len(waiting') = Len(waiting) + 1
             /\ \A k \in 1 .. Len(waiting) : Receiving(k) => Receiving(k)'
      BY RowsKept
    <2> QED
      BY <1>2, <2>3, <2>4, <2>5
  <1>4. CASE \A p \in Peers : ~SynStep(p)
    <2>1. /\ Len(waiting') >= Len(waiting)
          /\ \A k \in 1 .. Len(waiting) : Receiving(k) => Receiving(k)'
      <3>1. \/ /\ waiting' = waiting
               /\ \A k \in 1 .. Len(waiting) : Receiving(k) => Receiving(k)'
            \/ /\ Len(waiting') = Len(waiting) + 1
               /\ \A k \in 1 .. Len(waiting) : Receiving(k) => Receiving(k)'
        BY <1>4, RowsKept
      <3> QED
        BY <1>2, <3>1
    <2>2. CASE SynsAlone
      <3>1. m = n
        BY <2>2, SynCountAlone
      <3>2. \A k \in 1 .. n : k \in 1 .. Len(waiting)
        <4> HIDE DEF n, m
        <4> QED
          BY <1>1, <1>2
      <3>3. n <= Len(waiting') /\ \A k \in 1 .. n : Receiving(k)'
        <4> HIDE DEF n, m
        <4> QED
          BY <1>1, <1>2, <2>1, <3>2
      <3> QED
        BY <3>1, <3>3
    <2>3. ASSUME NEW p \in Peers, ConnectStep(p), SynComes(p, "syn_sent")
          PROVE  m <= Len(waiting') /\ \A k \in 1 .. m : Receiving(k)'
      <3>1. m = n + 1
        BY <2>3, AppendFrames DEF SynComes
      <3>2. /\ Len(waiting) > Cardinality(SynSent) /\ Cardinality(SynSent) \in Nat
            /\ \A k \in 1 .. Len(waiting) : Receiving(k)
        BY <2>3, FS_CardinalityType DEF ConnectStep, Receiving, SynOnce
      <3>3. n <= Cardinality(SynSent)
        BY SynBound
      <3> HIDE DEF n, m
      <3>4. \A k \in 1 .. m : k \in 1 .. Len(waiting)
        BY <1>2, <3>1, <3>2, <3>3
      <3> QED
        BY <1>2, <2>1, <3>1, <3>2, <3>3, <3>4
    <2> QED
      BY <1>4, <2>2, <2>3, SynCases
  <1> QED
    BY <1>3, <1>4

LEMMA StartedNext ==
  ASSUME Typed, Typed', Places, Loops, SynOnce, Started, Steps, faults' = faults,
         pc' = "sweep" => pc = "sweep"
  PROVE  Started'
  <1> SUFFICES ASSUME "sweep_syn" \notin faults
               PROVE  /\ pc' = "sweep" => \A p \in Peers : peer'[p].st = "idle"
                      /\ "early_syn" \notin faults /\ (\E p \in Peers : peer'[p].st # "idle") =>
                            \A k \in 1 .. Len(waiting') : Receiving(k)'
    BY DEF Started
  <1>1. /\ pc = "sweep" => \A p \in Peers : peer[p].st = "idle"
        /\ "early_syn" \notin faults /\ (\E p \in Peers : peer[p].st # "idle") =>
              \A k \in 1 .. Len(waiting) : Receiving(k)
    BY DEF Started
  <1>2. ASSUME NEW p \in Peers, SynStep(p) PROVE peer[p].st # "idle"
    <2>1. frames # <<>> /\ frames' = Tail(frames) /\ Head(frames).peer = p
      BY <1>2 DEF SynStep, Taken
    <2>2. Head(frames) = frames[1] /\ 1 \in 1 .. Len(frames)
      BY <2>1, TailFrames
    <2> QED
      BY <2>1, <2>2 DEF SynOnce, Known
  <1>3. CASE \E p \in Peers : peer[p].st # "idle"
    <2>1. pc # "sweep" /\ pc' # "sweep"
      BY <1>1, <1>3
    <2>2. ASSUME NEW c \in Threads, ListenStep(c) PROVE FALSE
      BY <2>1, <2>2 DEF ListenStep, Places, Seat, Inside
    <2>3. "early_syn" \notin faults => \A k \in 1 .. Len(waiting') : Receiving(k)'
      <3> SUFFICES ASSUME "early_syn" \notin faults PROVE \A k \in 1 .. Len(waiting') : Receiving(k)'
        OBVIOUS
      <3>1. \A k \in 1 .. Len(waiting) : Receiving(k)
        BY <1>1, <1>3
      <3>2. \A k \in 1 .. Len(waiting) - 1 : Len(waiting) \in Nat => k + 1 \in 1 .. Len(waiting)
        OBVIOUS
      <3> QED
        BY <2>2, <3>1, <3>2, RowsKept
    <2> QED
      BY <2>1, <2>3
  <1>4. CASE \A p \in Peers : peer[p].st = "idle"
    <2>1. CASE SynsAlone
      BY <1>4, <2>1 DEF SynsAlone
    <2>2. ASSUME NEW p \in Peers, ConnectStep(p)
          PROVE  /\ pc' # "sweep"
                 /\ "early_syn" \notin faults => \A k \in 1 .. Len(waiting') : Receiving(k)'
      BY <2>2 DEF ConnectStep, PeerStep, Receiving
    <2> QED
      BY <1>2, <1>4, <2>1, <2>2, SynCases
  <1> QED
    BY <1>3, <1>4

(* A SYN is taken: the thread that is answered receives, or Hasty. *)
LEMMA AnswerHeard ==
  ASSUME Typed, Places, SynOnce, Heard, Started, NEW p \in Peers, SynStep(p), waiting # <<>>,
         cl[waiting[1].thread].st # "recv"
  PROVE  Hasty
  <1>1. /\ frames # <<>> /\ frames' = Tail(frames) /\ Head(frames).type = "SYN"
        /\ Head(frames).peer = p
    BY DEF SynStep, Taken
  <1>2. /\ Head(frames) = frames[1] /\ 1 \in 1 .. Len(frames)
        /\ Cardinality(SynAt) \in Nat /\ Cardinality(SynAt) # 0
    BY <1>1, TailFrames
  <1>3. peer[p].st # "idle"
    BY <1>1, <1>2 DEF SynOnce, Known
  <1>4. 1 \in 1 .. Len(waiting) /\ ~Receiving(1)
    BY EmptySeq DEF Typed, Receiving
  <1>5. "sweep_syn" \notin faults => "early_syn" \in faults
    BY <1>3, <1>4 DEF Started
  <1>6. "retransmit" \notin faults => "early_syn" \in faults
    <2>1. 1 \in 1 .. Cardinality(SynAt)
      BY <1>2
    <2> QED
      BY <1>4, <2>1 DEF Heard
  <1> QED
    BY <1>5, <1>6 DEF Hasty

-----------------------------------------------------------------------------
(* A call stays where it is until it is answered. *)

LEMMA ClosedStays ==
  ASSUME Typed, Steps, NEW h \in 1 .. Len(sock), sock[h].st = "closed"
  PROVE  sock'[h].st = "closed"
  <1>1. ASSUME NEW c \in Threads, NEW n, Drained(cl[c].fd, n) PROVE sock'[h].st = "closed"
    BY <1>1 DEF Drained
  <1>2. ASSUME NEW p \in Peers, TcpStep(p) PROVE sock'[h].st = "closed"
    BY <1>2 DEF TcpStep, Bound
  <1>3. ASSUME NEW p \in Peers, DataStep(p) \/ ResetStep(p) PROVE sock'[h].st = "closed"
    BY <1>3 DEF DataStep, ResetStep
  <1> QED
    BY <1>1, <1>2, <1>3
    DEF Steps, IdleStep, PurgeStep, ThreadMove, ListenStep, GetStep, ParkStep, SendStep, CutStep,
        TaskStep, ReplyStep, SynStep, ConnectStep, RetransmitStep, BurstStep, PeerStep

LEMMA KeptSame ==
  ASSUME Typed, Steps, faults' = faults, NEW x \in Threads, Kept(x), cl[x].st \in Inside,
         cl'[x].op = cl[x].op, cl'[x].fd = cl[x].fd,
         Waits(x) => Waits(x)', Blocked(x) => Blocked(x)' \/ hand' = x, hand = x => hand' = x
  PROVE  Kept(x)'
  <1>1. Hasty => Hasty'
    BY DEF Hasty
  <1>2. cl[x].op \in {"Send", "Bye"} /\ sock[cl[x].fd].st = "closed" => sock'[cl[x].fd].st = "closed"
    BY ClosedStays, GivenSocket
  <1>3. cl[x].op = "Listen" => Waits(x)' \/ Hasty'
    BY <1>1 DEF Kept
  <1>4. cl[x].op = "Recv" => Blocked(x)' \/ hand' = x
    BY DEF Kept
  <1>5. cl[x].op \in {"Send", "Bye"} =>
            hand' = x \/ sock'[cl'[x].fd].st = "closed" \/ "tx_full" \in faults'
    BY <1>2 DEF Kept
  <1> QED
    BY <1>3, <1>4, <1>5 DEF Kept

LEMMA KeptThreads ==
  ASSUME Typed, Places, Loops, Sockets, Steps, faults' = faults, \A x \in Threads : Kept(x),
         NEW c \in Threads,
         \/ ThreadMove(c) \/ ListenStep(c) \/ GetStep(c) \/ ParkStep(c) \/ SendStep(c)
         \/ CutStep(c) \/ TaskStep(c) \/ ReplyStep(c),
         NEW x \in Threads, cl'[x].st \in Inside
  PROVE  Kept(x)'
  <1>1. ASSUME x # c PROVE cl'[x] = cl[x]
    BY <1>1 DEF ThreadMove, ListenStep, GetStep, ParkStep, SendStep, CutStep, TaskStep, ReplyStep,
                Moved, Answered
  <1>2. x # NoOne
    BY SyncAssumption DEF Threads, NoOne
  <1>3. ASSUME x # c PROVE hand = x => hand' = x
    BY <1>2, <1>3 DEF ThreadMove, ListenStep, GetStep, ParkStep, SendStep, CutStep, TaskStep, ReplyStep
  <1>4. Waits(x) => Waits(x)'
    <2>1. CASE waiting' = waiting
      BY <2>1 DEF Waits
    <2>2. CASE ListenStep(c)
      <3>1. Len(waiting) \in Nat /\ Len(waiting') = Len(waiting) + 1
            /\ \A k \in 1 .. Len(waiting) : waiting'[k] = waiting[k]
        BY <2>2, TypedSeqs DEF ListenStep
      <3> QED
        BY <3>1 DEF Waits
    <2> QED
      BY <2>1, <2>2 DEF ThreadMove, GetStep, ParkStep, SendStep, CutStep, TaskStep, ReplyStep
  <1>5. Blocked(x) => Blocked(x)' \/ hand' = x
    <2>1. CASE blocked' = blocked
      BY <2>1 DEF Blocked
    <2>2. CASE ParkStep(c)
      <3>1. Len(blocked) \in Nat /\ Len(blocked') = Len(blocked) + 1
            /\ \A k \in 1 .. Len(blocked) : blocked'[k] = blocked[k]
        BY <2>2, TypedSeqs DEF ParkStep
      <3> QED
        BY <3>1 DEF Blocked
    <2>3. CASE TaskStep(c)
      <3>1. blocked[idx].thread = c /\ hand' = c /\ Len(blocked') = Len(blocked)
            /\ \A k \in 1 .. Len(blocked) : /\ blocked'[k].thread = blocked[k].thread
                                            /\ blocked'[k].complete <=> k = idx \/ blocked[k].complete
        BY <2>3 DEF TaskStep
      <3> QED
        BY <3>1 DEF Blocked
    <2> QED
      BY <2>1, <2>2, <2>3 DEF ThreadMove, ListenStep, GetStep, SendStep, CutStep, ReplyStep
  <1>6. CASE x # c
    BY <1>1, <1>3, <1>4, <1>5, <1>6, KeptSame
  <1>7. CASE x = c
    <2>1. CASE ThreadMove(c)
      <3>1. cl[x].st = "sent" /\ Moved(c, "recv") /\ hand' = hand
        BY <1>7, <2>1 DEF ThreadMove, Moved, Inside
      <3> QED
        BY <1>4, <1>5, <1>7, <3>1, KeptSame DEF Moved, Inside
    <2>2. CASE ListenStep(c)
      <3>1. cl'[c].op = "Listen" /\ waiting'[Len(waiting) + 1].thread = c
            /\ Len(waiting') = Len(waiting) + 1 /\ Len(waiting) \in Nat
        BY <2>2, TypedSeqs DEF ListenStep, Moved
      <3>2. Waits(c)'
        BY <3>1 DEF Waits
      <3> QED
        BY <1>7, <3>1, <3>2 DEF Kept
    <2>3. CASE GetStep(c) \/ SendStep(c)
      BY <1>7, <2>3 DEF GetStep, SendStep, Moved, Kept
    <2>4. CASE ParkStep(c)
      <3>1. cl'[c].op = "Recv" /\ blocked'[Len(blocked) + 1].thread = c
            /\ ~blocked'[Len(blocked) + 1].complete
            /\ Len(blocked') = Len(blocked) + 1 /\ Len(blocked) \in Nat
        BY <2>4, TypedSeqs DEF ParkStep, Moved
      <3>2. Blocked(c)'
        BY <3>1 DEF Blocked
      <3> QED
        BY <1>7, <3>1, <3>2 DEF Kept
    <2>5. CASE CutStep(c)
      <3>1. /\ cl[c].op \in {"Send", "Bye"} /\ sock' = sock
            /\ sock[cl[c].fd].st # "established" \/ "tx_full" \in faults
            /\ cl'[c].op = cl[c].op /\ cl'[c].fd = cl[c].fd
        BY <2>5 DEF CutStep, Moved
      <3>2. sock[cl[c].fd].st # "listen"
        BY <3>1 DEF Sockets, Fresh
      <3>3. sock[cl[c].fd] \in SockSet
        BY <3>1, GivenSocket, TypedSeqs
      <3>4. sock'[cl'[c].fd].st = "closed" \/ "tx_full" \in faults'
        BY <3>1, <3>2, <3>3 DEF SockSet
      <3> QED
        BY <1>7, <3>1, <3>4 DEF Kept
    <2>6. CASE TaskStep(c)
      <3>1. Blocked(c) /\ hand' = c /\ Moved(c, cl[c].st)
        BY <2>6, PlacesTask DEF TaskStep
      <3>2. cl'[c].op = "Recv"
        BY <3>1 DEF Places, Seat, Moved
      <3> QED
        BY <1>7, <3>1, <3>2 DEF Kept
    <2>7. CASE ReplyStep(c)
      BY <1>7, <2>7 DEF ReplyStep, Answered, Inside
    <2> QED
      BY <2>1, <2>2, <2>3, <2>4, <2>5, <2>6, <2>7
  <1> QED
    BY <1>6, <1>7

LEMMA KeptSyn ==
  ASSUME Typed, Places, SynOnce, Heard, Started, Steps, faults' = faults, \A x \in Threads : Kept(x),
         NEW p \in Peers, SynStep(p), NEW x \in Threads, cl'[x].st \in Inside
  PROVE  Kept(x)'
  <1>1. TableStep /\ hand' = hand /\ blocked' = blocked
    BY DEF SynStep, Taken
  <1>2. Blocked(x) => Blocked(x)'
    BY <1>1 DEF Blocked
  <1>3. CASE UNCHANGED <<waiting, cl>>
    <2>1. Waits(x) => Waits(x)'
      BY <1>3 DEF Waits
    <2> QED
      BY <1>1, <1>2, <1>3, <2>1, KeptSame
  <1>4. CASE /\ waiting # <<>> /\ Len(waiting') = Len(waiting) - 1
             /\ \A k \in 1 .. Len(waiting') : waiting'[k] = waiting[k + 1]
             /\ \/ cl[waiting[1].thread].st = "recv"
                   /\ Answered(waiting[1].thread, waiting[1].handle)
                \/ cl[waiting[1].thread].st # "recv" /\ cl' = cl
    <2>1. /\ waiting[1].thread \in Threads /\ Waits(waiting[1].thread)
          /\ \A y : Waits(y)' <=> Waits(y) /\ y # waiting[1].thread
      BY <1>4, FirstGoes DEF Places
    <2>2. CASE x # waiting[1].thread
      <3>1. cl'[x] = cl[x]
        BY <1>4, <2>2 DEF Answered
      <3> QED
        BY <1>1, <1>2, <2>1, <2>2, <3>1, KeptSame
    <2>3. CASE x = waiting[1].thread
      <3>1. cl[waiting[1].thread].st # "recv" /\ cl' = cl
        BY <1>4, <2>3 DEF Answered, Inside
      <3>2. Hasty
        BY <1>4, <3>1, AnswerHeard
      <3>3. Hasty' /\ cl'[x].op = "Listen"
        BY <2>1, <2>3, <3>1, <3>2 DEF Hasty, Places, Seat
      <3> QED
        BY <3>3 DEF Kept
    <2> QED
      BY <2>2, <2>3
  <1> QED
    BY <1>1, <1>3, <1>4 DEF TableStep

LEMMA KeptNext ==
  ASSUME Typed, Places, Loops, Sockets, Syns, \A x \in Threads : Kept(x), Steps, faults' = faults
  PROVE  \A x \in Threads : Kept(x)'
  <1> SUFFICES ASSUME NEW x \in Threads, cl'[x].st \in Inside PROVE Kept(x)'
    BY DEF Kept
  <1>1. CASE /\ UNCHANGED <<cl, hand, waiting>>
             /\ blocked' = blocked \/ PurgeStep
    <2>1. Waits(x) => Waits(x)'
      BY <1>1 DEF Waits
    <2>2. Blocked(x) => Blocked(x)'
      <3>1. CASE blocked' = blocked
        BY <3>1 DEF Blocked
      <3>2. CASE PurgeStep
        BY <3>2 DEF PurgeStep, Blocked
      <3> QED
        BY <1>1, <3>1, <3>2
    <2> QED
      BY <1>1, <2>1, <2>2, KeptSame
  <1>2. CASE \E c \in Threads :
                \/ ThreadMove(c) \/ ListenStep(c) \/ GetStep(c) \/ ParkStep(c) \/ SendStep(c)
                \/ CutStep(c) \/ TaskStep(c) \/ ReplyStep(c)
    BY <1>2, KeptThreads
  <1>3. CASE \E p \in Peers : SynStep(p)
    BY <1>3, KeptSyn DEF Syns
  <1> QED
    BY <1>1, <1>2, <1>3
    DEF Steps, IdleStep, PurgeStep, DataStep, ResetStep, Taken, ConnectStep, RetransmitStep,
        BurstStep, PeerStep

-----------------------------------------------------------------------------
(* The handles of the listen table. *)

LEMMA HandleFacts ==
  ASSUME Typed
  PROVE  /\ \A k \in 1 .. Len(waiting) : waiting[k].handle \in 1 .. Len(sock)
         /\ \A x \in Threads : cl[x].fd \in 0 .. Len(sock)
         /\ \A x \in Threads : cl[x].fd # NoFd => cl[x].fd \in 1 .. Len(sock)
  <1>1. Len(sock) \in Nat
    BY TypedSeqs
  <1>2. ASSUME NEW k \in 1 .. Len(waiting) PROVE waiting[k].handle \in 1 .. Len(sock)
    <2>1. waiting[k].handle \in Nat \ {0}
      BY TypedSeqs DEF WaitSet
    <2>2. waiting[k].handle <= Len(sock)
      BY DEF Typed
    <2> QED
      BY <1>1, <2>1, <2>2
  <1>3. ASSUME NEW x \in Threads
        PROVE  cl[x].fd \in 0 .. Len(sock) /\ (cl[x].fd # NoFd => cl[x].fd \in 1 .. Len(sock))
    <2>1. cl[x].fd \in Nat /\ cl[x].fd <= Len(sock)
      BY DEF Typed, ThreadSet
    <2> QED
      BY <1>1, <2>1 DEF NoFd
  <1> QED
    BY <1>2, <1>3

(* What a step that takes no SYN and no Listen leaves alone. *)
LEMMA SocketsStay ==
  ASSUME Typed, Sockets, Steps, \A c \in Threads : ~ListenStep(c), \A p \in Peers : ~SynStep(p)
  PROVE  /\ waiting' = waiting /\ Len(sock') = Len(sock)
         /\ \A h \in 1 .. Len(sock) : /\ sock'[h].st = "listen" <=> sock[h].st = "listen"
                                      /\ sock'[h].peer = sock[h].peer
         /\ \A x \in Threads : cl'[x].fd = cl[x].fd
  <1>1. ASSUME NEW c \in Threads, NEW v, Moved(c, v) PROVE \A x \in Threads : cl'[x].fd = cl[x].fd
    BY <1>1 DEF Moved
  <1>2. ASSUME NEW c \in Threads, Answered(c, cl[c].fd) PROVE \A x \in Threads : cl'[x].fd = cl[x].fd
    BY <1>2 DEF Answered
  <1>3. \A x \in Threads : cl'[x].fd = cl[x].fd
    BY <1>1, <1>2
    DEF Steps, IdleStep, PurgeStep, ThreadMove, GetStep, ParkStep, SendStep, CutStep, TaskStep,
        ReplyStep, DataStep, ResetStep, ConnectStep, RetransmitStep, BurstStep, PeerStep
  <1>4. waiting' = waiting
    BY DEF Steps, IdleStep, PurgeStep, ThreadMove, GetStep, ParkStep, SendStep, CutStep, TaskStep,
           ReplyStep, DataStep, ResetStep, ConnectStep, RetransmitStep, BurstStep, PeerStep
  <1>5. ASSUME sock' = sock
        PROVE  /\ Len(sock') = Len(sock)
               /\ \A h \in 1 .. Len(sock) : /\ sock'[h].st = "listen" <=> sock[h].st = "listen"
                                            /\ sock'[h].peer = sock[h].peer
    BY <1>5
  <1>6. ASSUME NEW p \in Peers, ResetStep(p)
        PROVE  /\ Len(sock') = Len(sock)
               /\ \A h \in 1 .. Len(sock) : /\ sock'[h].st = "listen" <=> sock[h].st = "listen"
                                            /\ sock'[h].peer = sock[h].peer
    <2>1. \A h \in 1 .. Len(sock) : sock[h].st = "listen" => sock[h].peer # {p}
      BY DEF Sockets, SockOk
    <2> QED
      BY <1>6, <2>1 DEF ResetStep
  <1>7. ASSUME NEW p \in Peers, DataStep(p)
        PROVE  /\ Len(sock') = Len(sock)
               /\ \A h \in 1 .. Len(sock) : /\ sock'[h].st = "listen" <=> sock[h].st = "listen"
                                            /\ sock'[h].peer = sock[h].peer
    BY <1>7 DEF DataStep
  <1>8. ASSUME NEW g, NEW n, Drained(g, n)
        PROVE  /\ Len(sock') = Len(sock)
               /\ \A h \in 1 .. Len(sock) : /\ sock'[h].st = "listen" <=> sock[h].st = "listen"
                                            /\ sock'[h].peer = sock[h].peer
    BY <1>8 DEF Drained
  <1>9. /\ Len(sock') = Len(sock)
        /\ \A h \in 1 .. Len(sock) : /\ sock'[h].st = "listen" <=> sock[h].st = "listen"
                                     /\ sock'[h].peer = sock[h].peer
    BY <1>5, <1>6, <1>7, <1>8
    DEF Steps, IdleStep, PurgeStep, ThreadMove, GetStep, ParkStep, SendStep, CutStep, TaskStep,
        ReplyStep, ConnectStep, RetransmitStep, BurstStep, PeerStep
  <1> QED
    BY <1>3, <1>4, <1>9

LEMMA HandlesStay ==
  ASSUME Typed, Sockets, Handles, Steps, faults' = faults, pc = "spin" => pc' = "spin",
         \A c \in Threads : ~ListenStep(c), \A p \in Peers : ~SynStep(p)
  PROVE  Handles'
  <1>1. /\ waiting' = waiting /\ Len(sock') = Len(sock)
        /\ \A h \in 1 .. Len(sock) : /\ sock'[h].st = "listen" <=> sock[h].st = "listen"
                                     /\ sock'[h].peer = sock[h].peer
        /\ \A x \in Threads : cl'[x].fd = cl[x].fd
    BY SocketsStay
  <1>2. /\ \A k \in 1 .. Len(waiting) : waiting[k].handle \in 1 .. Len(sock)
        /\ \A x \in Threads : cl[x].fd # NoFd => cl[x].fd \in 1 .. Len(sock)
    BY HandleFacts
  <1>3. Sorted' /\ Apart'
    BY <1>1 DEF Handles, Sorted, Apart
  <1>4. Matched'
    BY <1>1, <1>2 DEF Handles, Matched
  <1>5. GivenSocketsConnected'
    BY <1>1, <1>2 DEF Handles, GivenSocketsConnected
  <1> QED
    BY <1>3, <1>4, <1>5 DEF Handles

LEMMA HandlesListen ==
  ASSUME Typed, Handles, faults' = faults, pc = "spin" => pc' = "spin", NEW c \in Threads, ListenStep(c)
  PROVE  Handles'
  <1> DEFINE n == Len(waiting) + 1
             g == Len(sock) + 1
  <1>1. /\ Len(waiting) \in Nat /\ Len(sock) \in Nat
        /\ Len(sock') = Len(sock) + 1 /\ \A h \in 1 .. Len(sock) : sock'[h] = sock[h]
        /\ sock'[g].st = "listen"
        /\ Len(waiting') = Len(waiting) + 1
        /\ \A k \in 1 .. Len(waiting) : waiting'[k] = waiting[k]
        /\ waiting'[n].handle = g
    BY TypedSeqs DEF ListenStep
  <1>2. \A x \in Threads : cl'[x].fd = cl[x].fd
    BY DEF ListenStep, Moved
  <1>3. /\ \A k \in 1 .. Len(waiting) : waiting[k].handle \in 1 .. Len(sock)
        /\ \A x \in Threads : cl[x].fd \in 0 .. Len(sock)
        /\ \A x \in Threads : cl[x].fd # NoFd => cl[x].fd \in 1 .. Len(sock)
    BY HandleFacts
  <1>4. \A k \in 1 .. Len(waiting') : k \in 1 .. Len(waiting) \/ k = n
    BY <1>1
  <1>5. Sorted'
    <2> SUFFICES ASSUME NEW i \in 1 .. Len(waiting'), NEW j \in 1 .. Len(waiting'), i < j
                 PROVE  waiting'[i].handle < waiting'[j].handle
      BY DEF Sorted
    <2>1. i \in 1 .. Len(waiting)
      BY <1>1, <1>4
    <2>2. CASE j \in 1 .. Len(waiting)
      BY <1>1, <2>1, <2>2 DEF Handles, Sorted
    <2>3. CASE j = n
      <3>1. waiting'[j].handle = g /\ waiting'[i] = waiting[i] /\ waiting[i].handle \in 1 .. Len(sock)
        BY <1>1, <1>3, <2>1, <2>3
      <3> QED
        BY <1>1, <3>1
    <2> QED
      BY <1>4, <2>2, <2>3
  <1>6. g \notin 0 .. Len(sock)
    BY <1>1
  <1>7. Apart'
    <2>1. ASSUME NEW x \in Threads, NEW k \in 1 .. Len(waiting') PROVE cl'[x].fd # waiting'[k].handle
      <3>1. CASE k = n
        BY <1>1, <1>2, <1>3, <1>6, <3>1
      <3>2. CASE k \in 1 .. Len(waiting)
        BY <1>1, <1>2, <3>2 DEF Handles, Apart
      <3> QED
        BY <1>4, <3>1, <3>2
    <2> QED
      BY <1>2, <2>1 DEF Handles, Apart
  <1>8. Matched'
    <2> SUFFICES ASSUME "retransmit" \notin faults, pc' # "spin", Len(waiting') < QueueSize
                 PROVE  /\ \A h \in 1 .. Len(sock') :
                              sock'[h].st = "listen" =>
                                  \E k \in 1 .. Len(waiting') : waiting'[k].handle = h
                        /\ \A k \in 1 .. Len(waiting') : sock'[waiting'[k].handle].st = "listen"
      BY DEF Matched
    <2>1. Len(waiting) < QueueSize
      BY <1>1, SyncAssumption
    <2>2. /\ \A h \in 1 .. Len(sock) :
                sock[h].st = "listen" => \E k \in 1 .. Len(waiting) : waiting[k].handle = h
          /\ \A k \in 1 .. Len(waiting) : sock[waiting[k].handle].st = "listen"
      BY <2>1 DEF Handles, Matched
    <2>3. n \in 1 .. Len(waiting') /\ \A k \in 1 .. Len(waiting) : k \in 1 .. Len(waiting')
      BY <1>1
    <2>4. \A h \in 1 .. Len(sock') : h \in 1 .. Len(sock) \/ h = g
      BY <1>1
    <2>5. \A h \in 1 .. Len(sock') :
             sock'[h].st = "listen" => \E k \in 1 .. Len(waiting') : waiting'[k].handle = h
      BY <1>1, <2>2, <2>3, <2>4
    <2>6. \A k \in 1 .. Len(waiting') : sock'[waiting'[k].handle].st = "listen"
      BY <1>1, <1>3, <1>4, <2>2
    <2> QED
      BY <2>5, <2>6
  <1>9. GivenSocketsConnected'
    BY <1>1, <1>2, <1>3 DEF Handles, GivenSocketsConnected
  <1> QED
    BY <1>5, <1>7, <1>8, <1>9 DEF Handles

(* TCP binds the socket whose handle the listen table gives away. *)
LEMMA BoundFirst ==
  ASSUME Typed, Places, Sockets, SynOnce, Handles, NEW p \in Peers, SynStep(p),
         "retransmit" \notin faults, pc' # "spin", waiting # <<>>, Len(waiting) < QueueSize
  PROVE  Bound(p, waiting[1].handle)
  <1>1. /\ pc # "spin" /\ frames # <<>> /\ frames' = Tail(frames) /\ Head(frames).type = "SYN"
        /\ Head(frames).peer = p /\ TcpStep(p)
    BY DEF SynStep, Taken
  <1>2. peer[p].st = "syn_sent"
    BY <1>1, TailFrames DEF SynOnce, Unrepeated, SynSent
  <1>3. \A h \in 1 .. Len(sock) : sock[h].peer # {p}
    BY <1>2 DEF Sockets, Owned, Owner
  <1>4. /\ Len(waiting) \in Nat \ {0} /\ 1 \in 1 .. Len(waiting)
        /\ Len(sock) \in Nat /\ \A k \in 1 .. Len(waiting) : waiting[k].handle \in 1 .. Len(sock)
    <2>1. Len(waiting) \in Nat \ {0} /\ 1 \in 1 .. Len(waiting)
      BY EmptySeq, TypedSeqs DEF Typed
    <2> QED
      BY <2>1, TypedSeqs, HandleFacts
  <1>5. /\ \A h \in 1 .. Len(sock) :
              sock[h].st = "listen" => \E k \in 1 .. Len(waiting) : waiting[k].handle = h
        /\ sock[waiting[1].handle].st = "listen"
    BY <1>1, <1>4 DEF Handles, Matched
  <1>6. PICK m \in 1 .. Len(sock) : Bound(p, m)
    BY <1>1, <1>3, <1>4, <1>5 DEF TcpStep
  <1>7. m <= waiting[1].handle
    BY <1>4, <1>5, <1>6 DEF Bound
  <1>8. PICK k \in 1 .. Len(waiting) : waiting[k].handle = m
    BY <1>5, <1>6 DEF Bound
  <1>9. waiting[1].handle <= waiting[k].handle
    <2>1. k = 1 \/ 1 < k
      BY <1>4
    <2>2. CASE k = 1
      BY <1>4, <2>2
    <2>3. CASE 1 < k
      <3>1. waiting[1].handle < waiting[k].handle
        BY <1>4, <2>3 DEF Handles, Sorted
      <3> QED
        BY <1>4, <3>1
    <2> QED
      BY <2>1, <2>2, <2>3
  <1>10. m = waiting[1].handle
    BY <1>4, <1>7, <1>8, <1>9
  <1> QED
    BY <1>6, <1>10

LEMMA PeersStay ==
  ASSUME Typed, NEW p \in Peers, TcpStep(p)
  PROVE  Len(sock') = Len(sock) /\ \A h \in 1 .. Len(sock) : sock[h].peer # {} => sock'[h].peer # {}
  <1>1. ASSUME NEW m \in 1 .. Len(sock), Bound(p, m)
        PROVE  Len(sock') = Len(sock) /\ \A h \in 1 .. Len(sock) : sock[h].peer # {} => sock'[h].peer # {}
    BY <1>1 DEF Bound
  <1> QED
    BY <1>1 DEF TcpStep

(* A SYN the listen table does not answer. *)
LEMMA HandlesDropped ==
  ASSUME Typed, Sockets, Handles, faults' = faults, NEW p \in Peers, SynStep(p),
         waiting = <<>> \/ Len(waiting) >= QueueSize, UNCHANGED <<waiting, cl, pc>>
  PROVE  Handles'
  <1>1. TcpStep(p) /\ pc # "spin" /\ Len(waiting) \in Nat
    BY TypedSeqs DEF SynStep, Taken
  <1>2. Sorted' /\ Apart'
    BY DEF Handles, Sorted, Apart
  <1>3. GivenSocketsConnected'
    <2>1. \A x \in Threads : cl[x].fd # NoFd => cl[x].fd \in 1 .. Len(sock)
      BY HandleFacts
    <2> QED
      BY <1>1, <2>1, PeersStay DEF Handles, GivenSocketsConnected
  <1>4. Matched'
    <2> SUFFICES ASSUME "retransmit" \notin faults, Len(waiting) < QueueSize
                 PROVE  /\ Len(waiting) = 0 /\ sock' = sock
                        /\ \A h \in 1 .. Len(sock) : sock[h].st # "listen"
      BY <1>1 DEF Matched
    <2>1. Len(waiting) = 0
      BY <1>1, EmptySeq, SyncAssumption
    <2>2. \A h \in 1 .. Len(sock) : sock[h].st # "listen"
      BY <1>1, <2>1 DEF Handles, Matched
    <2> QED
      BY <1>1, <2>1, <2>2 DEF TcpStep, Bound
  <1> QED
    BY <1>2, <1>3, <1>4 DEF Handles

(* A SYN that answers the first Listen. *)
LEMMA HandlesAnswered ==
  ASSUME Typed, Places, Sockets, SynOnce, Handles, faults' = faults, NEW p \in Peers, SynStep(p),
         waiting # <<>>, Len(waiting) < QueueSize, Len(waiting') = Len(waiting) - 1,
         \A k \in 1 .. Len(waiting') : waiting'[k] = waiting[k + 1],
         NEW y \in Threads, y = waiting[1].thread, NEW g \in 1 .. Len(sock), g = waiting[1].handle,
         Answered(y, g) \/ cl' = cl
  PROVE  Handles'
  <1>1. /\ Len(waiting) \in Nat \ {0} /\ 1 \in 1 .. Len(waiting) /\ Len(sock) \in Nat
        /\ pc # "spin" /\ TcpStep(p)
    BY EmptySeq, TypedSeqs DEF Typed, SynStep, Taken
  <1>2. \A k \in 1 .. Len(waiting') : k \in Nat /\ k + 1 \in 1 .. Len(waiting) /\ 1 < k + 1
    BY <1>1
  <1>3. \A k \in 1 .. Len(waiting) : waiting[k].handle \in 1 .. Len(sock)
    BY HandleFacts
  <1>4. \A k \in 1 .. Len(waiting') : g < waiting'[k].handle /\ waiting'[k].handle # g
    <2> SUFFICES ASSUME NEW k \in 1 .. Len(waiting')
                 PROVE  g < waiting'[k].handle /\ waiting'[k].handle # g
      OBVIOUS
    <2>1. g < waiting[k + 1].handle /\ waiting[k + 1].handle \in Nat
      BY <1>1, <1>2, <1>3 DEF Handles, Sorted
    <2> QED
      BY <1>1, <2>1
  <1>5. \A x \in Threads : cl'[x].fd = cl[x].fd \/ (x = y /\ cl'[x].fd = g)
    BY DEF Answered
  <1>6. Sorted'
    <2> SUFFICES ASSUME NEW i \in 1 .. Len(waiting'), NEW j \in 1 .. Len(waiting'), i < j
                 PROVE  waiting'[i].handle < waiting'[j].handle
      BY DEF Sorted
    <2>1. i + 1 < j + 1
      OBVIOUS
    <2>2. waiting[i + 1].handle < waiting[j + 1].handle
      BY <1>2, <2>1 DEF Handles, Sorted
    <2> QED
      BY <2>2
  <1>7. \A x \in Threads : cl[x].fd # g
    BY <1>1 DEF Handles, Apart
  <1>8. Apart'
    <2>1. ASSUME NEW x \in Threads, NEW k \in 1 .. Len(waiting') PROVE cl'[x].fd # waiting'[k].handle
      BY <1>2, <1>4, <1>5 DEF Handles, Apart
    <2>2. ASSUME NEW c \in Threads, NEW d \in Threads, cl'[c].fd = cl'[d].fd, cl'[c].fd # NoFd
          PROVE  c = d
      BY <1>5, <1>7, <2>2 DEF Handles, Apart
    <2> QED
      BY <2>1, <2>2 DEF Apart
  <1>9. Matched' /\ GivenSocketsConnected'
    <2>1. CASE "retransmit" \in faults \/ pc' = "spin"
      BY <2>1 DEF Matched, GivenSocketsConnected
    <2>2. CASE "retransmit" \notin faults /\ pc' # "spin"
      <3>1. Bound(p, g)
        BY <2>2, BoundFirst
      <3>2. /\ Len(sock') = Len(sock) /\ \A h \in 1 .. Len(sock) : h # g => sock'[h] = sock[h]
            /\ sock'[g].st = "established" /\ sock'[g].peer = {p}
        BY <3>1 DEF Bound
      <3>3. /\ \A h \in 1 .. Len(sock) :
                  sock[h].st = "listen" => \E k \in 1 .. Len(waiting) : waiting[k].handle = h
            /\ \A k \in 1 .. Len(waiting) : sock[waiting[k].handle].st = "listen"
        BY <1>1, <2>2 DEF Handles, Matched
      <3>4. ASSUME NEW h \in 1 .. Len(sock), sock'[h].st = "listen"
            PROVE  \E k \in 1 .. Len(waiting') : waiting'[k].handle = h
        <4>1. h # g /\ sock[h].st = "listen"
          BY <3>2, <3>4
        <4>2. PICK k \in 1 .. Len(waiting) : waiting[k].handle = h
          BY <3>3, <4>1
        <4>3. k # 1
          BY <4>1, <4>2
        <4>4. k - 1 \in 1 .. Len(waiting') /\ (k - 1) + 1 = k
          BY <1>1, <4>3
        <4>5. waiting'[k - 1] = waiting[k]
          BY <4>4
        <4> QED
          BY <4>2, <4>4, <4>5
      <3>5. ASSUME NEW k \in 1 .. Len(waiting') PROVE sock'[waiting'[k].handle].st = "listen"
        <4>1. /\ waiting'[k].handle = waiting[k + 1].handle /\ waiting[k + 1].handle \in 1 .. Len(sock)
              /\ sock[waiting[k + 1].handle].st = "listen"
          BY <1>2, <1>3, <3>3
        <4> QED
          BY <1>4, <3>2, <4>1
      <3>6. ASSUME NEW x \in Threads, cl'[x].fd # NoFd PROVE sock'[cl'[x].fd].peer # {}
        <4>1. CASE cl'[x].fd = g
          BY <3>2, <4>1
        <4>2. CASE cl'[x].fd # g
          <5>1. cl'[x].fd = cl[x].fd /\ cl[x].fd # NoFd /\ cl[x].fd \in 1 .. Len(sock)
            BY <1>5, <3>6, <4>2, HandleFacts
          <5>2. sock[cl[x].fd].peer # {}
            BY <1>1, <2>2, <5>1 DEF Handles, GivenSocketsConnected
          <5> QED
            BY <3>2, <4>2, <5>1, <5>2
        <4> QED
          BY <4>1, <4>2
      <3>7. Matched'
        BY <3>2, <3>4, <3>5 DEF Matched
      <3>8. GivenSocketsConnected'
        BY <3>6 DEF GivenSocketsConnected
      <3> QED
        BY <3>7, <3>8
    <2> QED
      BY <2>1, <2>2
  <1> QED
    BY <1>6, <1>8, <1>9 DEF Handles

LEMMA HandlesNext ==
  ASSUME Typed, Places, Sockets, SynOnce, Handles, Steps, faults' = faults, pc = "spin" => pc' = "spin"
  PROVE  Handles'
  <1>1. ASSUME NEW p \in Peers, SynStep(p) PROVE Handles'
    <2>1. CASE (waiting = <<>> \/ Len(waiting) >= QueueSize) /\ UNCHANGED <<waiting, cl, pc>>
      BY <1>1, <2>1, HandlesDropped
    <2>2. CASE /\ waiting # <<>> /\ Len(waiting) < QueueSize /\ Len(waiting') = Len(waiting) - 1
               /\ \A k \in 1 .. Len(waiting') : waiting'[k] = waiting[k + 1]
               /\ Answered(waiting[1].thread, waiting[1].handle) \/ cl' = cl
      <3>1. waiting[1].thread \in Threads /\ waiting[1].handle \in 1 .. Len(sock)
        BY <2>2, FirstGoes DEF Places
      <3> QED
        BY <1>1, <2>2, <3>1, HandlesAnswered
    <2> QED
      BY <1>1, <2>1, <2>2 DEF SynStep, TableStep
  <1> QED
    BY <1>1, HandlesListen, HandlesStay

-----------------------------------------------------------------------------
(* The bytes. *)

DataOf(p) == {f \in FrameSet : f.type = "DATA" /\ f.peer = p}

LEMMA FlightAt ==
  ASSUME Typed, NEW p \in Peers
  PROVE  InFlight(p) = Cardinality(At(frames, DataOf(p)))
  <1>1. DOMAIN frames = 1 .. Len(frames) /\ \A k \in 1 .. Len(frames) : frames[k] \in FrameSet
    BY TypedSeqs, LenProperties DEF Typed
  <1>2. {k \in DOMAIN frames : frames[k].type = "DATA" /\ frames[k].peer = p} = At(frames, DataOf(p))
    BY <1>1 DEF At, DataOf
  <1> QED
    BY <1>2 DEF InFlight

LEMMA FlightTail ==
  ASSUME Typed, Typed', frames # <<>>, frames' = Tail(frames), NEW p \in Peers
  PROVE  /\ InFlight(p) \in Nat
         /\ Head(frames).type = "DATA" /\ Head(frames).peer = p =>
               InFlight(p) # 0 /\ InFlight(p)' = InFlight(p) - 1
         /\ ~(Head(frames).type = "DATA" /\ Head(frames).peer = p) => InFlight(p)' = InFlight(p)
  <1> DEFINE M == DataOf(p)
  <1>1. InFlight(p) = Cardinality(At(frames, M)) /\ InFlight(p)' = Cardinality(At(Tail(frames), M))
    <2>1. InFlight(p)' = Cardinality(At(frames', M))
      <3>1. DOMAIN frames' = 1 .. Len(frames') /\ \A k \in 1 .. Len(frames') : frames'[k] \in FrameSet
        BY LenProperties, ElementOfSeq DEF Typed
      <3>2. {k \in DOMAIN frames' : frames'[k].type = "DATA" /\ frames'[k].peer = p} = At(frames', M)
        BY <3>1 DEF At, DataOf
      <3> QED
        BY <3>2 DEF InFlight
    <2> QED
      BY <2>1, FlightAt
  <1>2. frames \in Seq(FrameSet) /\ Head(frames) \in FrameSet
    BY HeadTailProperties DEF Typed
  <1>3. Head(frames) \in M <=> Head(frames).type = "DATA" /\ Head(frames).peer = p
    BY <1>2 DEF DataOf
  <1> HIDE DEF M
  <1>4. /\ Cardinality(At(Tail(frames), M)) =
              IF Head(frames) \in M THEN Cardinality(At(frames, M)) - 1
                                    ELSE Cardinality(At(frames, M))
        /\ Cardinality(At(frames, M)) \in Nat
        /\ Head(frames) \in M => Cardinality(At(frames, M)) # 0
    BY <1>2, CountTail
  <1> QED
    BY <1>1, <1>3, <1>4

LEMMA FlightAppend ==
  ASSUME Typed, Typed', NEW f \in FrameSet, frames' = Append(frames, f), NEW p \in Peers
  PROVE  /\ InFlight(p) \in Nat
         /\ f.type = "DATA" /\ f.peer = p => InFlight(p)' = InFlight(p) + 1
         /\ ~(f.type = "DATA" /\ f.peer = p) => InFlight(p)' = InFlight(p)
  <1> DEFINE M == DataOf(p)
  <1>1. InFlight(p) = Cardinality(At(frames, M)) /\ InFlight(p)' = Cardinality(At(Append(frames, f), M))
    <2>1. InFlight(p)' = Cardinality(At(frames', M))
      <3>1. DOMAIN frames' = 1 .. Len(frames') /\ \A k \in 1 .. Len(frames') : frames'[k] \in FrameSet
        BY LenProperties, ElementOfSeq DEF Typed
      <3>2. {k \in DOMAIN frames' : frames'[k].type = "DATA" /\ frames'[k].peer = p} = At(frames', M)
        BY <3>1 DEF At, DataOf
      <3> QED
        BY <3>2 DEF InFlight
    <2> QED
      BY <2>1, FlightAt
  <1>2. frames \in Seq(FrameSet)
    BY DEF Typed
  <1>3. f \in M <=> f.type = "DATA" /\ f.peer = p
    BY DEF DataOf
  <1> HIDE DEF M
  <1>4. /\ Cardinality(At(frames, M)) \in Nat
        /\ Cardinality(At(Append(frames, f), M)) = Cardinality(At(frames, M)) + (IF f \in M THEN 1 ELSE 0)
    BY <1>2, CountAppend
  <1> QED
    BY <1>1, <1>3, <1>4

LEMMA ByteNats ==
  ASSUME Typed
  PROVE  /\ \A p \in Peers : peer[p].sent \in Nat /\ peer[p].echoed \in Nat /\ InFlight(p) \in Nat
         /\ \A c \in Threads : cl[c].seen \in Nat
         /\ \A h \in 1 .. Len(sock) : Len(sock[h].rx) \in Nat
  <1>1. ASSUME NEW p \in Peers PROVE InFlight(p) \in Nat
    <2>1. IsFiniteSet(1 .. Len(frames)) /\ At(frames, DataOf(p)) \in SUBSET (1 .. Len(frames))
      BY FrameFacts, FS_Interval DEF At
    <2> QED
      BY <2>1, FS_Subset, FS_CardinalityType, FlightAt
  <1>2. ASSUME NEW p \in Peers PROVE peer[p].sent \in Nat /\ peer[p].echoed \in Nat
    BY DEF Typed, PeerSet
  <1>3. ASSUME NEW c \in Threads PROVE cl[c].seen \in Nat
    BY DEF Typed, ThreadSet
  <1> QED
    BY <1>1, <1>2, <1>3, TypedSeqs

(* The socket of a thread, and whether it has one. *)
LEMMA ByteSocks ==
  ASSUME Typed, Apart
  PROVE  /\ \A c \in Threads : cl[c].op # "Listen" => cl[c].fd \in 1 .. Len(sock) /\ Given(cl[c].fd)
         /\ \A c, d \in Threads : cl[c].op # "Listen" /\ cl[d].op # "Listen" /\ c # d =>
               cl[c].fd # cl[d].fd
  BY GivenSocket DEF Typed, Apart, Given

(* A step that moves no byte. *)
LEMMA BytesQuiet ==
  ASSUME Typed, Bytes, faults' = faults, hand' = hand,
         \A q \in Peers : /\ peer'[q].sent = peer[q].sent /\ peer'[q].echoed = peer[q].echoed
                          /\ InFlight(q)' = InFlight(q)
                          /\ peer'[q].st \notin {"established", "reset"} =>
                                peer[q].st \notin {"established", "reset"},
         \A h \in 1 .. Len(sock') : \/ h \in 1 .. Len(sock) /\ sock'[h].peer = sock[h].peer
                                       /\ sock'[h].rx = sock[h].rx
                                    \/ sock'[h].peer = {},
         \A h \in 1 .. Len(sock) : sock'[h].peer = sock[h].peer /\ sock'[h].rx = sock[h].rx,
         \A x \in Threads : /\ cl'[x].fd = cl[x].fd /\ cl'[x].op = cl[x].op /\ cl'[x].seen = cl[x].seen
                            /\ cl'[x].st \in {"ready", "sending"} => cl[x].st \in {"ready", "sending"}
  PROVE  Bytes'
  <1>1. Silent'
    BY DEF Bytes, Silent
  <1>2. ASSUME "burst" \notin faults PROVE InStep'
    BY <1>2 DEF Bytes, InStep
  <1>3. ASSUME "burst" \notin faults, NEW h \in 1 .. Len(sock'), NEW p \in Peers, Owner(h, p)', ~Given(h)'
        PROVE  Unread(h, p)'
    <2>1. h \in 1 .. Len(sock) /\ Owner(h, p) /\ ~Given(h) /\ sock'[h].rx = sock[h].rx
      BY <1>3 DEF Owner, Given
    <2> QED
      BY <1>3, <2>1 DEF Bytes, Unread
  <1>4. ASSUME "burst" \notin faults, NEW c \in Threads, NEW p \in Peers, cl'[c].op # "Listen",
               Owner(cl[c].fd, p)'
        PROVE  Seen(c, p)'
    <2>1. cl[c].op # "Listen" /\ cl[c].fd \in 1 .. Len(sock)
      BY <1>4, GivenSocket
    <2>2. Owner(cl[c].fd, p) /\ sock'[cl'[c].fd].rx = sock[cl[c].fd].rx
      BY <1>4, <2>1 DEF Owner
    <2>3. Read(c)' <=> Read(c)
      BY DEF Read
    <2>4. Seen(c, p)
      BY <1>4, <2>1, <2>2 DEF Bytes
    <2> QED
      BY <2>2, <2>3, <2>4 DEF Seen
  <1> QED
    BY <1>1, <1>2, <1>3, <1>4 DEF Bytes

(* The server reads a byte for thread c. *)
LEMMA BytesRead ==
  ASSUME Typed, Typed', Apart, Bytes, faults' = faults, UNCHANGED <<frames, peer>>,
         NEW c \in Threads, NEW v, Moved(c, v), cl[c].op = "Recv", hand = NoOne, hand' = c,
         NEW n, Drained(cl[c].fd, n), "burst" \notin faults => n = Len(sock[cl[c].fd].rx) - 1
  PROVE  Bytes'
  <1> DEFINE g == cl[c].fd
  <1>1. /\ g \in 1 .. Len(sock) /\ Len(sock') = Len(sock)
        /\ \A h \in 1 .. Len(sock) : sock'[h].peer = sock[h].peer
        /\ \A h \in 1 .. Len(sock) : h # g => sock'[h].rx = sock[h].rx
        /\ Len(sock'[g].rx) = n
    BY GivenSocket DEF Drained
  <1>2. \A x \in Threads : cl'[x].fd = cl[x].fd /\ cl'[x].op = cl[x].op /\ cl'[x].seen = cl[x].seen
    BY DEF Moved
  <1>3. \A p \in Peers : InFlight(p)' = InFlight(p)
    BY DEF InFlight
  <1>4. Silent'
    BY <1>3 DEF Bytes, Silent
  <1>5. ASSUME "burst" \notin faults PROVE InStep'
    BY <1>5 DEF Bytes, InStep
  <1>6. Given(g) /\ \A h : Given(h)' <=> Given(h)
    BY <1>2 DEF Given
  <1>7. ASSUME "burst" \notin faults, NEW h \in 1 .. Len(sock'), NEW p \in Peers, Owner(h, p)', ~Given(h)'
        PROVE  Unread(h, p)'
    <2>1. h \in 1 .. Len(sock) /\ Owner(h, p) /\ ~Given(h) /\ h # g
      BY <1>1, <1>6, <1>7 DEF Owner
    <2>2. sock'[h].rx = sock[h].rx /\ Unread(h, p)
      BY <1>1, <1>7, <2>1 DEF Bytes
    <2> QED
      BY <1>3, <2>2 DEF Unread
  <1>8. ASSUME "burst" \notin faults, NEW x \in Threads, NEW p \in Peers, cl'[x].op # "Listen",
               Owner(cl[x].fd, p)'
        PROVE  Seen(x, p)'
    <2>1. cl[x].op # "Listen" /\ cl[x].fd \in 1 .. Len(sock) /\ Owner(cl[x].fd, p)
      <3>1. cl[x].op # "Listen" /\ cl[x].fd \in 1 .. Len(sock)
        BY <1>2, <1>8, GivenSocket
      <3> QED
        BY <1>1, <1>2, <1>8, <3>1 DEF Owner
    <2>2. Seen(x, p)
      BY <1>8, <2>1 DEF Bytes
    <2>3. ~Read(x)
      BY SyncAssumption DEF Read, NoOne, Threads
    <2>4. CASE x = c
      <3>1. Read(x)'
        BY <1>2, <2>4 DEF Read
      <3>2. Len(sock'[cl'[x].fd].rx) = Len(sock[cl[x].fd].rx) - 1
        BY <1>1, <1>2, <1>8, <2>4
      <3>3. peer[p].sent = InFlight(p) + Len(sock[cl[x].fd].rx) + cl[x].seen
            /\ peer[p].echoed <= cl[x].seen
        <4>1. peer[p].sent = InFlight(p) + Len(sock[cl[x].fd].rx) + 0 + cl[x].seen
          BY <2>2, <2>3 DEF Seen
        <4>2. PICK a, b, s \in Nat : a = InFlight(p) /\ b = Len(sock[cl[x].fd].rx) /\ s = cl[x].seen
          BY <2>1, ByteNats
        <4>3. peer[p].sent = a + b + 0 + s
          BY <4>1, <4>2
        <4>4. a + b + 0 + s = a + b + s
          OBVIOUS
        <4> QED
          BY <2>2, <4>2, <4>3, <4>4 DEF Seen
      <3>4. peer'[p].sent = InFlight(p)' + Len(sock'[cl'[x].fd].rx) + 1 + cl'[x].seen
        <4>1. PICK a, b, s \in Nat : a = InFlight(p) /\ b = Len(sock[cl[x].fd].rx) /\ s = cl[x].seen
          BY <2>1, ByteNats
        <4>2. peer[p].sent = a + b + s /\ Len(sock'[cl'[x].fd].rx) = b - 1
          BY <3>2, <3>3, <4>1
        <4>3. a + b + s = a + (b - 1) + 1 + s
          OBVIOUS
        <4> QED
          BY <1>2, <1>3, <4>1, <4>2, <4>3
      <3> QED
        BY <1>2, <2>4, <3>1, <3>3, <3>4 DEF Seen
    <2>5. CASE x # c
      <3>1. cl[x].fd # g
        BY <2>1, <2>5, ByteSocks
      <3>2. sock'[cl'[x].fd].rx = sock[cl[x].fd].rx
        BY <1>1, <1>2, <2>1, <3>1
      <3>3. ~Read(x)' /\ cl'[x] = cl[x]
        BY <2>5 DEF Read, Moved
      <3> QED
        BY <1>3, <2>2, <2>3, <3>2, <3>3 DEF Seen
    <2> QED
      BY <2>4, <2>5
  <1> QED
    BY <1>4, <1>5, <1>7, <1>8 DEF Bytes

(* process_blocked_task reads the whole buffer, which holds one byte. *)
LEMMA OneByte ==
  ASSUME Typed, Sockets, Bytes, "burst" \notin faults, NEW c \in Threads, cl[c].op = "Recv",
         hand = NoOne, sock[cl[c].fd].rx # <<>>
  PROVE  Len(sock[cl[c].fd].rx) = 1
  <1>1. cl[c].fd \in 1 .. Len(sock) /\ sock[cl[c].fd] \in SockSet
    BY GivenSocket, TypedSeqs
  <1>2. sock[cl[c].fd].peer # {}
    BY <1>1 DEF Sockets, SockOk
  <1>3. PICK p \in Peers : Owner(cl[c].fd, p)
    BY <1>1, <1>2 DEF SockSet, Owner
  <1>4. Seen(c, p) /\ peer[p].sent <= peer[p].echoed + 1
    BY <1>3 DEF Bytes, InStep
  <1>5. ~Read(c)
    BY SyncAssumption DEF Read, NoOne, Threads
  <1>6. peer[p].sent = InFlight(p) + Len(sock[cl[c].fd].rx) + 0 + cl[c].seen
        /\ peer[p].echoed <= cl[c].seen
    BY <1>4, <1>5 DEF Seen
  <1>7. Len(sock[cl[c].fd].rx) # 0
    BY <1>1, EmptySeq, TypedSeqs
  <1>8. PICK a, b, s, t, e \in Nat : /\ a = InFlight(p) /\ b = Len(sock[cl[c].fd].rx) /\ s = cl[c].seen
                                      /\ t = peer[p].sent /\ e = peer[p].echoed
    BY <1>1, ByteNats
  <1>9. t = a + b + 0 + s /\ e <= s /\ t <= e + 1 /\ b # 0
    BY <1>4, <1>6, <1>7, <1>8
  <1>10. b = 1
    BY <1>9
  <1> QED
    BY <1>8, <1>10

LEMMA BytesSend ==
  ASSUME Typed, Typed', Sockets, Apart, Bytes, faults' = faults, NEW c \in Threads, SendStep(c)
  PROVE  Bytes'
  <1> DEFINE g == cl[c].fd
  <1>1. /\ cl[c].st = "sending" /\ cl[c].op \in {"Send", "Bye"} /\ Moved(c, "sent")
        /\ hand = NoOne /\ hand' = c /\ sock' = sock /\ frames' = frames
        /\ \A p \in Peers :
              /\ peer'[p].st = peer[p].st /\ peer'[p].sent = peer[p].sent
              /\ peer'[p].echoed = IF Owner(g, p) THEN peer[p].echoed + 1 ELSE peer[p].echoed
    BY DEF SendStep, Owner
  <1>2. \A x \in Threads : cl'[x].fd = cl[x].fd /\ cl'[x].op = cl[x].op /\ cl'[x].seen = cl[x].seen
    BY <1>1 DEF Moved
  <1>3. \A p \in Peers : InFlight(p)' = InFlight(p)
    BY <1>1 DEF InFlight
  <1>4. g \in 1 .. Len(sock) /\ Given(g)
    BY <1>1, GivenSocket DEF Given
  <1>5. Silent'
    <2>1. \A p \in Peers : Owner(g, p) => peer[p].st \in {"established", "reset"}
      BY <1>4 DEF Sockets, Owned
    <2> QED
      BY <1>1, <1>3, <2>1 DEF Bytes, Silent
  <1>6. ASSUME "burst" \notin faults PROVE InStep'
    <2> SUFFICES ASSUME NEW p \in Peers PROVE peer'[p].sent <= peer'[p].echoed + 1
      BY DEF InStep
    <2>1. peer[p].sent <= peer[p].echoed + 1 /\ peer[p].sent \in Nat /\ peer[p].echoed \in Nat
      BY <1>6, ByteNats DEF Bytes, InStep
    <2>2. CASE Owner(g, p)
      BY <1>1, <2>1, <2>2
    <2>3. CASE ~Owner(g, p)
      BY <1>1, <2>1, <2>3
    <2> QED
      BY <2>2, <2>3
  <1>7. \A h, p : Owner(h, p)' <=> Owner(h, p)
    BY <1>1 DEF Owner
  <1>8. ASSUME "burst" \notin faults, NEW h \in 1 .. Len(sock'), NEW p \in Peers, Owner(h, p)', ~Given(h)'
        PROVE  Unread(h, p)'
    <2>1. h \in 1 .. Len(sock) /\ Owner(h, p) /\ ~Given(h)
      BY <1>1, <1>2, <1>7, <1>8 DEF Given
    <2>2. ~Owner(g, p)
      BY <1>4, <2>1 DEF Sockets, Owned
    <2>3. Unread(h, p)
      BY <1>8, <2>1 DEF Bytes
    <2> QED
      BY <1>1, <1>3, <2>2, <2>3 DEF Unread
  <1>9. ASSUME "burst" \notin faults, NEW x \in Threads, NEW p \in Peers, cl'[x].op # "Listen",
               Owner(cl[x].fd, p)'
        PROVE  Seen(x, p)'
    <2>1. cl[x].op # "Listen" /\ cl[x].fd \in 1 .. Len(sock) /\ Owner(cl[x].fd, p)
      <3>1. cl[x].op # "Listen"
        BY <1>2, <1>9
      <3>2. Owner(cl[x].fd, p)
        BY <1>1, <1>2, <1>9 DEF Owner
      <3> QED
        BY <3>1, <3>2, GivenSocket
    <2>2. Seen(x, p)
      BY <1>9, <2>1 DEF Bytes
    <2>3. ~Read(x)
      BY <1>1, SyncAssumption DEF Read, NoOne, Threads
    <2>4. ~Read(x)'
      BY <1>1, <1>2 DEF Read
    <2>5. peer'[p].sent = InFlight(p)' + Len(sock'[cl'[x].fd].rx)
                             + (IF Read(x)' THEN 1 ELSE 0) + cl'[x].seen
      BY <1>1, <1>2, <1>3, <2>2, <2>3, <2>4 DEF Seen
    <2>6. CASE x = c
      <3>1. peer[p].echoed < cl[x].seen /\ peer'[p].echoed = peer[p].echoed + 1
        BY <1>1, <2>1, <2>2, <2>6 DEF Seen
      <3>2. peer'[p].echoed <= cl'[x].seen
        BY <1>2, <3>1, ByteNats
      <3>3. cl'[x].st = "sent"
        BY <1>1, <2>6 DEF Moved
      <3> QED
        BY <2>5, <3>2, <3>3 DEF Seen
    <2>7. CASE x # c
      <3>1. cl[x].fd # g
        BY <1>1, <2>1, <2>7, ByteSocks
      <3>2. ~Owner(g, p)
        BY <1>4, <2>1, <3>1 DEF Sockets, Owned
      <3>3. cl'[x] = cl[x] /\ peer'[p].echoed = peer[p].echoed
        BY <1>1, <2>7, <3>2 DEF Moved
      <3> QED
        BY <2>2, <2>5, <3>3 DEF Seen
    <2> QED
      BY <2>6, <2>7
  <1> QED
    BY <1>5, <1>6, <1>8, <1>9 DEF Bytes

LEMMA BytesReply ==
  ASSUME Typed, Typed', Places, Bytes, faults' = faults, NEW c \in Threads, ReplyStep(c)
  PROVE  Bytes'
  <1>1. /\ hand = c /\ hand' = NoOne /\ cl[c].st = "recv" /\ Answered(c, cl[c].fd)
        /\ sock' = sock /\ frames' = frames /\ peer' = peer
    BY DEF ReplyStep
  <1>2. cl[c].op # "Listen" /\ cl[c].op \in Ops
    BY <1>1 DEF Places, Seat, Typed, ThreadSet
  <1>3. \A x \in Threads : cl'[x].fd = cl[x].fd
    BY <1>1 DEF Answered
  <1>4. \A p \in Peers : InFlight(p)' = InFlight(p)
    BY <1>1 DEF InFlight
  <1>5. Silent'
    BY <1>1, <1>4 DEF Bytes, Silent
  <1>6. ASSUME "burst" \notin faults PROVE InStep'
    BY <1>1, <1>6 DEF Bytes, InStep
  <1>7. ASSUME "burst" \notin faults, NEW h \in 1 .. Len(sock'), NEW p \in Peers, Owner(h, p)', ~Given(h)'
        PROVE  Unread(h, p)'
    <2>1. h \in 1 .. Len(sock) /\ Owner(h, p) /\ ~Given(h)
      BY <1>1, <1>3, <1>7 DEF Given, Owner
    <2> QED
      BY <1>1, <1>4, <1>7, <2>1 DEF Bytes, Unread
  <1>8. ASSUME "burst" \notin faults, NEW x \in Threads, NEW p \in Peers, cl'[x].op # "Listen",
               Owner(cl[x].fd, p)'
        PROVE  Seen(x, p)'
    <2>1. cl[x].op # "Listen" /\ cl[x].fd \in 1 .. Len(sock) /\ Owner(cl[x].fd, p)
      <3>1. cl[x].op # "Listen"
        BY <1>1, <1>2, <1>8 DEF Answered
      <3>2. Owner(cl[x].fd, p)
        BY <1>1, <1>3, <1>8 DEF Owner
      <3> QED
        BY <3>1, <3>2, GivenSocket
    <2>2. Seen(x, p)
      BY <1>8, <2>1 DEF Bytes
    <2>3. ~Read(x)'
      BY <1>1, SyncAssumption DEF Read, NoOne, Threads
    <2>4. CASE x # c
      <3>1. ~Read(x) /\ cl'[x] = cl[x]
        BY <1>1, <2>4 DEF Read, Answered
      <3> QED
        BY <1>1, <1>4, <2>2, <2>3, <3>1 DEF Seen
    <2>5. CASE x = c /\ cl[c].op = "Recv"
      <3>1. /\ cl'[x].seen = cl[x].seen + 1 /\ Read(x)
        BY <1>1, <2>5 DEF Answered, Read
      <3>2. peer[p].sent = InFlight(p) + Len(sock[cl[x].fd].rx) + 1 + cl[x].seen
            /\ peer[p].echoed <= cl[x].seen
        BY <2>2, <3>1 DEF Seen
      <3>3. peer[p].sent = InFlight(p) + Len(sock[cl[x].fd].rx) + 0 + (cl[x].seen + 1)
            /\ peer[p].echoed < cl[x].seen + 1 /\ peer[p].echoed <= cl[x].seen + 1
        <4>1. PICK a, b, n, e \in Nat : /\ a = InFlight(p) /\ b = Len(sock[cl[x].fd].rx)
                                        /\ n = cl[x].seen /\ e = peer[p].echoed
          BY <2>1, ByteNats
        <4>2. peer[p].sent = a + b + 1 + n /\ e <= n
          BY <3>2, <4>1
        <4>3. a + b + 1 + n = a + b + 0 + (n + 1) /\ e < n + 1 /\ e <= n + 1
          BY <4>2
        <4> QED
          BY <4>1, <4>2, <4>3
      <3>4. peer'[p].sent = InFlight(p)' + Len(sock'[cl'[x].fd].rx) + 0 + cl'[x].seen
            /\ peer'[p].echoed < cl'[x].seen /\ peer'[p].echoed <= cl'[x].seen
        BY <1>1, <1>3, <1>4, <3>1, <3>3
      <3> QED
        BY <2>3, <3>4 DEF Seen
    <2>6. CASE x = c /\ cl[c].op \in {"Send", "Bye"}
      <3>1. /\ cl'[x].seen = cl[x].seen /\ ~Read(x)
            /\ cl'[x].op = "Recv" \/ cl'[x].st = "done"
        BY <1>1, <2>6 DEF Answered, Read
      <3> QED
        BY <1>1, <1>3, <1>4, <2>2, <2>3, <3>1 DEF Seen
    <2> QED
      BY <1>2, <2>4, <2>5, <2>6 DEF Ops
  <1> QED
    BY <1>5, <1>6, <1>7, <1>8 DEF Bytes

LEMMA BytesData ==
  ASSUME Typed, Typed', Bytes, faults' = faults, NEW p \in Peers, DataStep(p)
  PROVE  Bytes'
  <1>1. /\ frames # <<>> /\ frames' = Tail(frames) /\ Head(frames).type = "DATA"
        /\ Head(frames).peer = p /\ hand' = hand /\ peer' = peer /\ cl' = cl
        /\ Len(sock') = Len(sock)
        /\ \A h \in 1 .. Len(sock) :
              /\ sock'[h].peer = sock[h].peer
              /\ sock[h].peer # {p} => sock'[h].rx = sock[h].rx
              /\ sock[h].peer = {p} => Len(sock'[h].rx) = Len(sock[h].rx) + 1
    BY DEF DataStep, Taken
  <1>2. /\ InFlight(p) \in Nat /\ InFlight(p) # 0 /\ InFlight(p)' = InFlight(p) - 1
        /\ \A q \in Peers : q # p => InFlight(q)' = InFlight(q)
    BY <1>1, FlightTail
  <1>3. Silent'
    BY <1>1, <1>2 DEF Bytes, Silent
  <1>4. ASSUME "burst" \notin faults PROVE InStep'
    BY <1>1, <1>4 DEF Bytes, InStep
  <1>5. ASSUME NEW h \in 1 .. Len(sock), NEW q \in Peers, Owner(h, q)
        PROVE  InFlight(q)' + Len(sock'[h].rx) = InFlight(q) + Len(sock[h].rx)
    <2>1. CASE q = p
      <3>1. PICK a, b \in Nat : a = InFlight(p) /\ b = Len(sock[h].rx)
        BY ByteNats
      <3>2. InFlight(q)' = a - 1 /\ Len(sock'[h].rx) = b + 1 /\ InFlight(q) = a
        BY <1>1, <1>2, <1>5, <2>1, <3>1 DEF Owner
      <3>3. (a - 1) + (b + 1) = a + b
        OBVIOUS
      <3> QED
        BY <3>1, <3>2, <3>3
    <2>2. CASE q # p
      BY <1>1, <1>2, <1>5, <2>2 DEF Owner
    <2> QED
      BY <2>1, <2>2
  <1>6. ASSUME "burst" \notin faults, NEW h \in 1 .. Len(sock'), NEW q \in Peers, Owner(h, q)', ~Given(h)'
        PROVE  Unread(h, q)'
    <2>1. h \in 1 .. Len(sock) /\ Owner(h, q) /\ ~Given(h)
      BY <1>1, <1>6 DEF Given, Owner
    <2>2. Unread(h, q)
      BY <1>6, <2>1 DEF Bytes
    <2> QED
      BY <1>1, <1>5, <2>1, <2>2 DEF Unread
  <1>7. ASSUME "burst" \notin faults, NEW x \in Threads, NEW q \in Peers, cl'[x].op # "Listen",
               Owner(cl[x].fd, q)'
        PROVE  Seen(x, q)'
    <2>1. cl[x].op # "Listen" /\ cl[x].fd \in 1 .. Len(sock)
      BY <1>1, <1>7, GivenSocket
    <2>2. Owner(cl[x].fd, q)
      BY <1>1, <1>7, <2>1 DEF Owner
    <2>3. Seen(x, q)
      BY <1>7, <2>1, <2>2 DEF Bytes
    <2>4. Read(x)' <=> Read(x)
      BY <1>1 DEF Read
    <2>5. InFlight(q)' + Len(sock'[cl'[x].fd].rx) = InFlight(q) + Len(sock[cl[x].fd].rx)
      BY <1>1, <1>5, <2>1, <2>2
    <2> QED
      BY <1>1, <2>3, <2>4, <2>5 DEF Seen
  <1> QED
    BY <1>3, <1>4, <1>6, <1>7 DEF Bytes

LEMMA BytesBurst ==
  ASSUME Typed, Typed', Bytes, faults' = faults, NEW p \in Peers, BurstStep(p)
  PROVE  Bytes'
  <1>1. /\ peer[p].st = "established" /\ peer'[p].st = "established"
        /\ \A q \in Peers : q # p => peer'[q] = peer[q]
        /\ peer'[p].echoed = peer[p].echoed /\ peer'[p].sent = peer[p].sent + 1
        /\ hand' = hand /\ sock' = sock /\ cl' = cl
        /\ "burst" \notin faults => peer[p].sent = peer[p].echoed
    BY DEF BurstStep, PeerStep
  <1>2. PICK f \in FrameSet : f.type = "DATA" /\ f.peer = p /\ frames' = Append(frames, f)
    BY DEF BurstStep, PeerStep
  <1>3. /\ InFlight(p) \in Nat /\ InFlight(p)' = InFlight(p) + 1
        /\ \A q \in Peers : q # p => InFlight(q)' = InFlight(q)
    BY <1>2, FlightAppend
  <1>4. Silent'
    BY <1>1, <1>3 DEF Bytes, Silent
  <1>5. ASSUME "burst" \notin faults PROVE InStep'
    <2> SUFFICES ASSUME NEW q \in Peers PROVE peer'[q].sent <= peer'[q].echoed + 1
      BY DEF InStep
    <2>1. CASE q = p
      BY <1>1, <1>5, <2>1, ByteNats
    <2>2. CASE q # p
      BY <1>1, <1>5, <2>2 DEF Bytes, InStep
    <2> QED
      BY <2>1, <2>2
  <1>6. ASSUME "burst" \notin faults, NEW h \in 1 .. Len(sock'), NEW q \in Peers, Owner(h, q)', ~Given(h)'
        PROVE  Unread(h, q)'
    <2>1. h \in 1 .. Len(sock) /\ Owner(h, q) /\ ~Given(h)
      BY <1>1, <1>6 DEF Given, Owner
    <2>2. Unread(h, q)
      BY <1>6, <2>1 DEF Bytes
    <2>3. CASE q = p
      <3>1. peer[p].sent + 1 = InFlight(p) + 1 + Len(sock[h].rx)
        <4>1. PICK a, b \in Nat : a = InFlight(p) /\ b = Len(sock[h].rx)
          BY <2>1, ByteNats
        <4>2. peer[p].sent = a + b
          BY <2>2, <2>3, <4>1 DEF Unread
        <4>3. (a + b) + 1 = a + 1 + b
          OBVIOUS
        <4> QED
          BY <4>1, <4>2, <4>3
      <3> QED
        BY <1>1, <1>3, <2>2, <2>3, <3>1 DEF Unread
    <2>4. CASE q # p
      BY <1>1, <1>3, <2>2, <2>4 DEF Unread
    <2> QED
      BY <2>3, <2>4
  <1>7. ASSUME "burst" \notin faults, NEW x \in Threads, NEW q \in Peers, cl'[x].op # "Listen",
               Owner(cl[x].fd, q)'
        PROVE  Seen(x, q)'
    <2>1. cl[x].op # "Listen" /\ cl[x].fd \in 1 .. Len(sock) /\ Owner(cl[x].fd, q)
      BY <1>1, <1>7, GivenSocket DEF Owner
    <2>2. Seen(x, q)
      BY <1>7, <2>1 DEF Bytes
    <2>3. Read(x)' <=> Read(x)
      BY <1>1 DEF Read
    <2>4. CASE q = p
      <3> DEFINE r == IF Read(x) THEN 1 ELSE 0
      <3>1. peer[p].sent = InFlight(p) + Len(sock[cl[x].fd].rx) + r + cl[x].seen /\ r \in Nat
        BY <2>2, <2>4 DEF Seen
      <3>2. (IF Read(x)' THEN 1 ELSE 0) = r
        BY <2>3
      <3> HIDE DEF r
      <3>3. peer[p].sent + 1 = InFlight(p) + 1 + Len(sock[cl[x].fd].rx) + r + cl[x].seen
        <4>1. PICK a, b, n, s \in Nat : /\ a = InFlight(p) /\ b = Len(sock[cl[x].fd].rx)
                                        /\ n = r /\ s = cl[x].seen
          BY <2>1, <3>1, ByteNats
        <4>2. peer[p].sent = a + b + n + s
          BY <3>1, <4>1
        <4>3. (a + b + n + s) + 1 = a + 1 + b + n + s
          OBVIOUS
        <4> QED
          BY <4>1, <4>2, <4>3
      <3>4. peer'[p].sent = InFlight(p)' + Len(sock'[cl'[x].fd].rx) + r + cl'[x].seen
        BY <1>1, <1>3, <3>3
      <3> QED
        BY <1>1, <2>2, <2>4, <3>2, <3>4 DEF Seen
    <2>5. CASE q # p
      BY <1>1, <1>3, <2>2, <2>3, <2>5 DEF Seen
    <2> QED
      BY <2>4, <2>5
  <1> QED
    BY <1>4, <1>5, <1>6, <1>7 DEF Bytes

(* A socket that gets a peer has no byte, and neither has the peer. *)
LEMMA BoundEmpty ==
  ASSUME Typed, Sockets, Silent, NEW p \in Peers, TcpStep(p)
  PROVE  /\ Len(sock') = Len(sock)
         /\ \A h \in 1 .. Len(sock) : sock'[h].rx = sock[h].rx
         /\ \A q \in Peers : /\ peer'[q].sent = peer[q].sent /\ peer'[q].echoed = peer[q].echoed
                             /\ peer'[q].st \notin {"established", "reset"} =>
                                   peer[q].st \notin {"established", "reset"}
         /\ \A h \in 1 .. Len(sock), q \in Peers : Owner(h, q)' =>
               \/ Owner(h, q)
               \/ /\ sock[h].st = "listen" /\ Len(sock[h].rx) = 0
                  /\ peer[q].sent = 0 /\ peer[q].echoed = 0 /\ InFlight(q) = 0
  <1>1. CASE UNCHANGED <<sock, peer>>
    BY <1>1 DEF Owner
  <1>2. ASSUME NEW m \in 1 .. Len(sock), Bound(p, m)
        PROVE  /\ Len(sock') = Len(sock)
               /\ \A h \in 1 .. Len(sock) : sock'[h].rx = sock[h].rx
               /\ \A q \in Peers : /\ peer'[q].sent = peer[q].sent /\ peer'[q].echoed = peer[q].echoed
                                   /\ peer'[q].st \notin {"established", "reset"} =>
                                         peer[q].st \notin {"established", "reset"}
               /\ \A h \in 1 .. Len(sock), q \in Peers : Owner(h, q)' =>
                     \/ Owner(h, q)
                     \/ /\ sock[h].st = "listen" /\ Len(sock[h].rx) = 0
                        /\ peer[q].sent = 0 /\ peer[q].echoed = 0 /\ InFlight(q) = 0
    <2>1. /\ Len(sock') = Len(sock) /\ sock[m].st = "listen"
          /\ \A h \in 1 .. Len(sock) : h # m => sock'[h] = sock[h]
          /\ \A h \in 1 .. Len(sock) : ~Owner(h, p)
          /\ sock'[m].peer = {p} /\ sock'[m].rx = sock[m].rx
          /\ \A q \in Peers : q # p => peer'[q] = peer[q]
          /\ peer'[p].st = "established" /\ peer'[p].sent = peer[p].sent
          /\ peer'[p].echoed = peer[p].echoed
      BY <1>2 DEF Bound, Owner
    <2>2. sock[m].rx = <<>> /\ Len(sock[m].rx) = 0
      BY <2>1, EmptySeq DEF Sockets, SockOk
    <2>3. peer[p].sent = 0 /\ peer[p].echoed = 0 /\ InFlight(p) = 0
      BY <2>1 DEF Sockets, Owned, Silent
    <2>4. \A h \in 1 .. Len(sock), q \in Peers : Owner(h, q)' => Owner(h, q) \/ (h = m /\ q = p)
      BY <2>1 DEF Owner
    <2> QED
      BY <2>1, <2>2, <2>3, <2>4
  <1> QED
    BY <1>1, <1>2 DEF TcpStep

LEMMA BytesSyn ==
  ASSUME Typed, Typed', Places, Sockets, Apart, Bytes, faults' = faults, NEW p \in Peers, SynStep(p)
  PROVE  Bytes'
  <1>1. /\ frames # <<>> /\ frames' = Tail(frames) /\ Head(frames).type = "SYN" /\ hand' = hand
        /\ TableStep /\ TcpStep(p)
    BY DEF SynStep, Taken
  <1>2. \A q \in Peers : InFlight(q)' = InFlight(q)
    BY <1>1, FlightTail
  <1>3. /\ Len(sock') = Len(sock)
        /\ \A h \in 1 .. Len(sock) : sock'[h].rx = sock[h].rx
        /\ \A q \in Peers : /\ peer'[q].sent = peer[q].sent /\ peer'[q].echoed = peer[q].echoed
                            /\ peer'[q].st \notin {"established", "reset"} =>
                                  peer[q].st \notin {"established", "reset"}
        /\ \A h \in 1 .. Len(sock), q \in Peers : Owner(h, q)' =>
              \/ Owner(h, q)
              \/ /\ sock[h].st = "listen" /\ Len(sock[h].rx) = 0
                 /\ peer[q].sent = 0 /\ peer[q].echoed = 0 /\ InFlight(q) = 0
    BY <1>1, BoundEmpty DEF Bytes
  <1>4. \A x \in Threads :
           \/ cl'[x] = cl[x]
           \/ /\ cl[x].op = "Listen" /\ hand # x /\ cl[x].fd = NoFd
              /\ cl'[x].op = "Recv" /\ cl'[x].seen = 0
              /\ cl'[x].fd \in 1 .. Len(sock) /\ \A d \in Threads : cl[d].fd # cl'[x].fd
    <2>1. CASE cl' = cl
      BY <2>1
    <2>2. CASE /\ waiting # <<>> /\ Len(waiting') = Len(waiting) - 1
               /\ \A k \in 1 .. Len(waiting') : waiting'[k] = waiting[k + 1]
               /\ Answered(waiting[1].thread, waiting[1].handle)
      <3>1. /\ waiting[1].thread \in Threads /\ Waits(waiting[1].thread)
            /\ waiting[1].handle \in 1 .. Len(sock) /\ 1 \in 1 .. Len(waiting)
        BY <2>2, FirstGoes DEF Places
      <3>2. PICK y \in Threads : y = waiting[1].thread
        BY <3>1
      <3>3. cl[y].op = "Listen" /\ hand # y /\ cl[y].fd = NoFd /\ cl[y].seen = 0
        BY <3>1, <3>2 DEF Places, Seat, Typed
      <3>4. \A d \in Threads : cl[d].fd # waiting[1].handle
        BY <3>1 DEF Apart
      <3> QED
        BY <2>2, <3>1, <3>2, <3>3, <3>4 DEF Answered
    <2> QED
      BY <1>1, <2>1, <2>2 DEF TableStep
  <1>5. Silent'
    BY <1>2, <1>3 DEF Bytes, Silent
  <1>6. ASSUME "burst" \notin faults PROVE InStep'
    BY <1>3, <1>6 DEF Bytes, InStep
  <1>7. \A h \in 1 .. Len(sock) : Given(h) => Given(h)'
    BY <1>4 DEF Given, NoFd
  <1>8. ASSUME "burst" \notin faults, NEW h \in 1 .. Len(sock), NEW q \in Peers, Owner(h, q)', ~Given(h)
        PROVE  Unread(h, q) /\ Unread(h, q)'
    <2>1. Unread(h, q)
      BY <1>3, <1>8 DEF Bytes, Unread
    <2> QED
      BY <1>2, <1>3, <2>1 DEF Unread
  <1>9. ASSUME "burst" \notin faults, NEW x \in Threads, NEW q \in Peers, cl'[x].op # "Listen",
               Owner(cl[x].fd, q)'
        PROVE  Seen(x, q)'
    <2>1. Read(x)' <=> hand = x /\ cl'[x].op = "Recv"
      BY <1>1 DEF Read
    <2>2. CASE cl'[x] = cl[x]
      <3>1. cl[x].op # "Listen" /\ cl[x].fd \in 1 .. Len(sock)
        BY <1>9, <2>2, GivenSocket
      <3>2. Owner(cl[x].fd, q)' <=> sock'[cl[x].fd].peer = {q}
        BY <2>2 DEF Owner
      <3>3. CASE Owner(cl[x].fd, q)
        <4>1. Seen(x, q)
          BY <1>9, <3>1, <3>3 DEF Bytes
        <4>2. Read(x)' <=> Read(x)
          BY <2>1, <2>2 DEF Read
        <4> QED
          BY <1>2, <1>3, <2>2, <3>1, <4>1, <4>2 DEF Seen
      <3>4. CASE /\ sock[cl[x].fd].st = "listen" /\ Len(sock[cl[x].fd].rx) = 0
                 /\ peer[q].sent = 0 /\ peer[q].echoed = 0 /\ InFlight(q) = 0
        <4>1. cl[x].op = "Recv" /\ hand # x /\ cl[x].seen = 0
          BY <3>1, <3>4 DEF Sockets, Fresh
        <4>2. /\ peer'[q].sent = 0 /\ peer'[q].echoed = 0 /\ InFlight(q)' = 0 /\ cl'[x].seen = 0
              /\ Len(sock'[cl'[x].fd].rx) = 0 /\ ~Read(x)' /\ cl'[x].op = "Recv"
          BY <1>2, <1>3, <2>1, <2>2, <3>1, <3>4, <4>1
        <4> QED
          BY <4>2 DEF Seen
      <3> QED
        BY <1>3, <1>9, <2>2, <3>1, <3>3, <3>4 DEF Owner
    <2>3. CASE cl'[x] # cl[x]
      <3>1. /\ hand # x /\ cl'[x].op = "Recv" /\ cl'[x].seen = 0
            /\ cl'[x].fd \in 1 .. Len(sock) /\ ~Given(cl'[x].fd)
        BY <1>4, <2>3 DEF Given
      <3>2. PICK h \in 1 .. Len(sock) : h = cl'[x].fd
        BY <3>1
      <3>3. Owner(h, q)' /\ ~Given(h)
        BY <1>9, <3>1, <3>2 DEF Owner
      <3>4. peer'[q].sent = InFlight(q)' + Len(sock'[h].rx) /\ peer'[q].echoed = 0
        BY <1>8, <1>9, <3>3 DEF Unread
      <3>5. ~Read(x)'
        BY <2>1, <3>1
      <3>6. Len(sock'[h].rx) \in Nat /\ InFlight(q)' \in Nat
        BY <1>2, <1>3, ByteNats
      <3>7. peer'[q].sent = InFlight(q)' + Len(sock'[h].rx) + 0 + 0
        BY <3>4, <3>6
      <3> QED
        BY <3>1, <3>2, <3>4, <3>5, <3>7 DEF Seen
    <2> QED
      BY <2>2, <2>3
  <1> QED
    BY <1>3, <1>5, <1>6, <1>7, <1>8, <1>9 DEF Bytes

LEMMA BytesNext ==
  ASSUME Typed, Typed', Places, Loops, Sockets, Apart, Bytes, Steps, faults' = faults
  PROVE  Bytes'
  <1>1. ASSUME NEW c \in Threads, GetStep(c) PROVE Bytes'
    BY <1>1, BytesRead DEF GetStep
  <1>2. ASSUME NEW c \in Threads, TaskStep(c) PROVE Bytes'
    <2>1. cl[c].op = "Recv"
      BY <1>2, PlacesTask DEF Places, Seat
    <2>2. Drained(cl[c].fd, 0) /\ hand = NoOne /\ sock[cl[c].fd].rx # <<>>
      BY <1>2 DEF TaskStep, Drained
    <2>3. "burst" \notin faults => 0 = Len(sock[cl[c].fd].rx) - 1
      BY <2>1, <2>2, OneByte
    <2> QED
      BY <1>2, <2>1, <2>2, <2>3, BytesRead DEF TaskStep
  <1>3. CASE /\ UNCHANGED <<hand, frames, peer>>
             /\ \A h \in 1 .. Len(sock') : \/ h \in 1 .. Len(sock) /\ sock'[h].peer = sock[h].peer
                                              /\ sock'[h].rx = sock[h].rx
                                           \/ sock'[h].peer = {}
             /\ \A h \in 1 .. Len(sock) : sock'[h].peer = sock[h].peer /\ sock'[h].rx = sock[h].rx
             /\ \A x \in Threads :
                   /\ cl'[x].fd = cl[x].fd /\ cl'[x].op = cl[x].op /\ cl'[x].seen = cl[x].seen
                   /\ cl'[x].st \in {"ready", "sending"} => cl[x].st \in {"ready", "sending"}
    <2>1. \A q \in Peers : InFlight(q)' = InFlight(q)
      BY <1>3 DEF InFlight
    <2> QED
      BY <1>3, <2>1, BytesQuiet
  <1>4. CASE IdleStep \/ PurgeStep
    BY <1>3, <1>4 DEF IdleStep, PurgeStep
  <1>5. ASSUME NEW c \in Threads, ThreadMove(c) \/ ParkStep(c) \/ CutStep(c) PROVE Bytes'
    <2>1. UNCHANGED <<hand, frames, peer, sock>>
      BY <1>5 DEF ThreadMove, ParkStep, CutStep
    <2>2. \A x \in Threads :
             /\ cl'[x].fd = cl[x].fd /\ cl'[x].op = cl[x].op /\ cl'[x].seen = cl[x].seen
             /\ cl'[x].st \in {"ready", "sending"} => cl[x].st \in {"ready", "sending"}
      BY <1>5 DEF ThreadMove, ParkStep, CutStep, Moved
    <2> QED
      BY <1>3, <2>1, <2>2
  <1>6. ASSUME NEW c \in Threads, ListenStep(c) PROVE Bytes'
    <2>1. /\ UNCHANGED <<hand, frames, peer>> /\ Moved(c, "sent")
          /\ Len(sock') = Len(sock) + 1 /\ Len(sock) \in Nat
          /\ \A h \in 1 .. Len(sock) : sock'[h] = sock[h]
          /\ sock'[Len(sock) + 1].peer = {}
      BY <1>6, TypedSeqs DEF ListenStep
    <2>2. \A h \in 1 .. Len(sock') : h \in 1 .. Len(sock) \/ h = Len(sock) + 1
      BY <2>1
    <2>3. \A x \in Threads :
             /\ cl'[x].fd = cl[x].fd /\ cl'[x].op = cl[x].op /\ cl'[x].seen = cl[x].seen
             /\ cl'[x].st \in {"ready", "sending"} => cl[x].st \in {"ready", "sending"}
      BY <2>1 DEF Moved
    <2> QED
      BY <1>3, <2>1, <2>2, <2>3
  <1>7. ASSUME NEW p \in Peers, ResetStep(p) PROVE Bytes'
    <2>1. /\ frames # <<>> /\ frames' = Tail(frames) /\ Head(frames).type = "RST"
          /\ hand' = hand /\ peer' = peer /\ cl' = cl /\ Len(sock') = Len(sock)
          /\ \A h \in 1 .. Len(sock) : sock'[h].peer = sock[h].peer /\ sock'[h].rx = sock[h].rx
      BY <1>7 DEF ResetStep, Taken
    <2>2. \A q \in Peers : InFlight(q)' = InFlight(q)
      BY <2>1, FlightTail
    <2> QED
      BY <2>1, <2>2, BytesQuiet
  <1>8. ASSUME NEW p \in Peers, NEW v, NEW w, NEW type, PeerStep(p, v, w, type), type # "DATA",
               w \notin {"established", "reset"} => v \notin {"established", "reset"}
        PROVE  Bytes'
    <2>1. /\ \A q \in Peers : q # p => peer'[q] = peer[q]
          /\ peer[p].st = v /\ peer'[p].st = w
          /\ peer'[p].echoed = peer[p].echoed /\ peer'[p].sent = peer[p].sent
          /\ UNCHANGED <<hand, sock, cl>>
      BY <1>8 DEF PeerStep
    <2>2. PICK f \in FrameSet : f.type = type /\ frames' = Append(frames, f)
      BY <1>8 DEF PeerStep
    <2>3. \A q \in Peers : InFlight(q)' = InFlight(q)
      BY <1>8, <2>2, FlightAppend
    <2> QED
      BY <1>8, <2>1, <2>3, BytesQuiet
  <1>9. ASSUME NEW p \in Peers, \/ ConnectStep(p) \/ RetransmitStep(p)
                                \/ PeerStep(p, "established", "reset", "RST")
        PROVE  Bytes'
    BY <1>8, <1>9 DEF ConnectStep, RetransmitStep
  <1> QED
    BY <1>1, <1>2, <1>4, <1>5, <1>6, <1>7, <1>9, BytesSend, BytesReply, BytesData, BytesBurst,
       BytesSyn DEF Steps

-----------------------------------------------------------------------------
(* The whole invariant of the server. *)

SyncInv ==
    /\ OrphanInv /\ Typed /\ Places /\ Loops /\ Sockets /\ Syns
    /\ \A c \in Threads : Kept(c)
    /\ Handles /\ Bytes

LEMMA SyncInit == Init => SyncInv
  <1> SUFFICES ASSUME Init PROVE SyncInv
    OBVIOUS
  <1>1. ThreadNum \in Nat \ {0}
    BY SyncAssumption
  <1>2. /\ waiting = <<>> /\ poll_eps = <<>> /\ blocked = <<>> /\ sock = <<>> /\ frames = <<>>
        /\ Len(<<>>) = 0 /\ \A S : <<>> \in Seq(S)
    BY EmptySeq DEF Init
  <1>3. \A c \in Threads : /\ cl[c].st = "ready" /\ cl[c].op = "Listen" /\ cl[c].fd = NoFd
                           /\ cl[c].seen = 0
    BY DEF Init
  <1>4. \A p \in Peers : peer[p].st = "idle" /\ peer[p].sent = 0 /\ peer[p].echoed = 0
    BY DEF Init
  <1>5. Typed
    <2>1. cl \in [Threads -> ThreadSet] /\ peer \in [Peers -> PeerSet] /\ hand = NoOne
      BY DEF Init, ThreadSet, PeerSet, Sts, Ops, NoFd
    <2> QED
      BY <1>2, <1>3, <2>1 DEF Typed, NoFd
  <1>6. Places
    <2>1. \A c \in Threads : hand # c
      BY <1>1 DEF Init, NoOne, Threads
    <2> QED
      BY <1>2, <1>3, <2>1 DEF Places, WaitingOnce, PolledOnce, BlockedOnce, Seat, Waits, Blocked, Polled
  <1>7. Loops
    BY <1>1, <1>2 DEF Init, Loops
  <1>8. Sockets
    BY <1>2, <1>3, <1>4 DEF Sockets, Owned, Fresh
  <1>9. Syns
    <2>1. SynAt = {} /\ SynSent = {}
      BY <1>2, <1>4 DEF SynAt, At, SynSent
    <2>2. IsFiniteSet(SynSent) /\ Cardinality(SynAt) = 0
      BY <2>1, FS_EmptySet
    <2> QED
      BY <1>2, <1>4, <2>1, <2>2 DEF Syns, SynOnce, Known, Unrepeated, Heard, Started
  <1>10. \A c \in Threads : Kept(c)
    BY <1>3 DEF Kept, Inside
  <1>11. Handles
    BY <1>2, <1>3 DEF Handles, Sorted, Apart, Matched, GivenSocketsConnected
  <1>12. Bytes
    <2>1. \A p \in Peers : InFlight(p) = 0
      <3>1. \A p \in Peers : At(frames, DataOf(p)) = {}
        BY <1>2 DEF At
      <3> QED
        BY <1>5, <3>1, FlightAt, FS_EmptySet
    <2> QED
      BY <1>2, <1>3, <1>4, <2>1 DEF Bytes, Silent, InStep
  <1> QED
    BY <1>5, <1>6, <1>7, <1>8, <1>9, <1>10, <1>11, <1>12, OrphanInit DEF SyncInv

LEMMA SyncNext == SyncInv /\ [Next]_vars => SyncInv'
  <1> SUFFICES ASSUME SyncInv, [Next]_vars PROVE SyncInv'
    OBVIOUS
  <1>1. /\ OrphanInv /\ Typed /\ Places /\ Loops /\ Sockets /\ Syns
        /\ \A c \in Threads : Kept(c)
        /\ Handles /\ Bytes
    BY DEF SyncInv
  <1>2. /\ Steps /\ Typed' /\ faults' = faults
        /\ pc' = "sweep" => pc = "sweep"
        /\ pc = "spin" => pc' = "spin"
    BY <1>1, StepsTyped
  <1>3. OrphanInv' /\ Places' /\ Loops'
    BY <1>1, <1>2, OrphanNext, PlacesNext, LoopsNext
  <1>4. Sockets'
    BY <1>1, <1>2, SocketsNext
  <1>5. Syns'
    BY <1>1, <1>2, SynOnceNext, HeardNext, StartedNext DEF Syns
  <1>6. \A c \in Threads : Kept(c)'
    BY <1>1, <1>2, KeptNext
  <1>7. Handles'
    BY <1>1, <1>2, HandlesNext DEF Syns
  <1>8. Bytes'
    BY <1>1, <1>2, BytesNext DEF Handles
  <1> QED
    BY <1>2, <1>3, <1>4, <1>5, <1>6, <1>7, <1>8 DEF SyncInv

LEMMA SyncInvariant == Spec => []SyncInv
  BY SyncInit, SyncNext, PTL DEF Spec

(* POLL_EPS and RECV_BLOCKED_TASKS are Vecs that only a push makes longer: *)
(* neither ever has more entries than there are client threads, and every  *)
(* index and handle the server holds is valid.                             *)
THEOREM SyncTypeCorrectness == Spec => []TypeOK
  <1>1. SyncInv => TypeOK
    <2> SUFFICES ASSUME SyncInv PROVE TypeOK
      OBVIOUS
    <2>1. Typed /\ Places /\ Loops
      BY DEF SyncInv
    <2>2. Len(poll_eps) <= ThreadNum /\ Len(blocked) <= ThreadNum
      BY <2>1, TableLengths
    <2>3. \A c \in Threads : cl[c].st \in Sts /\ cl[c].fd \in {NoFd} \cup DOMAIN sock
      <3>1. DOMAIN sock = 1 .. Len(sock)
        BY <2>1, LenProperties DEF Typed
      <3>2. \A c \in Threads : cl[c].st \in Sts
        BY <2>1 DEF Typed, ThreadSet
      <3> QED
        BY <2>1, <3>1, <3>2, HandleFacts
    <2> QED
      BY <2>1, <2>2, <2>3 DEF TypeOK, Typed, Loops, Sts
  <1> QED
    BY <1>1, SyncInvariant, PTL

LEMMA CountOnce ==
  ASSUME NEW n \in Nat, NEW S \in SUBSET (1 .. n), \A i, j \in S : i = j
  PROVE  Cardinality(S) = IF S = {} THEN 0 ELSE 1
  <1>1. CASE S = {}
    BY <1>1, FS_EmptySet
  <1>2. CASE S # {}
    <2>1. PICK k \in S : S = {k}
      BY <1>2
    <2> QED
      BY <1>2, <2>1, FS_Singleton
  <1> QED
    BY <1>1, <1>2

LEMMA TokenCount ==
  ASSUME Typed, Places, NEW c \in Threads
  PROVE  Tokens(c) = (IF Waits(c) THEN 1 ELSE 0) + (IF Blocked(c) THEN 1 ELSE 0)
                        + (IF hand = c THEN 1 ELSE 0)
  <1> DEFINE W == {k \in DOMAIN waiting : waiting[k].thread = c}
             B == {k \in DOMAIN blocked : blocked[k] = [thread |-> c, complete |-> FALSE]}
  <1>1. /\ DOMAIN waiting = 1 .. Len(waiting) /\ DOMAIN blocked = 1 .. Len(blocked)
        /\ Len(waiting) \in Nat /\ Len(blocked) \in Nat
    BY LenProperties DEF Typed
  <1>2. \A k \in 1 .. Len(blocked) :
           blocked[k] = [thread |-> c, complete |-> FALSE] <=> blocked[k].thread = c /\ ~blocked[k].complete
    <2> SUFFICES ASSUME NEW k \in 1 .. Len(blocked)
                 PROVE  blocked[k] = [thread |-> c, complete |-> FALSE] <=>
                            blocked[k].thread = c /\ ~blocked[k].complete
      OBVIOUS
    <2>1. PICK t \in Threads, b \in BOOLEAN : blocked[k] = [thread |-> t, complete |-> b]
      BY TypedSeqs DEF TaskSet
    <2>2. CASE b = TRUE
      <3>1. blocked[k].complete
        BY <2>1, <2>2
      <3>2. [thread |-> c, complete |-> FALSE].complete = FALSE
        OBVIOUS
      <3> QED
        BY <3>1, <3>2
    <2>3. CASE b = FALSE
      <3>1. blocked[k] = [thread |-> t, complete |-> FALSE]
        BY <2>1, <2>3
      <3>2. blocked[k].thread = t /\ ~blocked[k].complete
        BY <3>1
      <3>3. [thread |-> c, complete |-> FALSE].thread = c
        OBVIOUS
      <3> QED
        BY <3>1, <3>2, <3>3
    <2> QED
      BY <2>2, <2>3
  <1>3. W \in SUBSET (1 .. Len(waiting)) /\ (W = {} <=> ~Waits(c)) /\ \A i, j \in W : i = j
    BY <1>1 DEF Waits, Places, WaitingOnce
  <1>4. B \in SUBSET (1 .. Len(blocked)) /\ (B = {} <=> ~Blocked(c)) /\ \A i, j \in B : i = j
    BY <1>1, <1>2 DEF Blocked, Places, BlockedOnce
  <1>5. Tokens(c) = Cardinality(W) + Cardinality(B) + (IF hand = c THEN 1 ELSE 0)
    BY DEF Tokens
  <1> HIDE DEF W, B
  <1>6. Cardinality(W) = IF Waits(c) THEN 1 ELSE 0
    BY <1>1, <1>3, CountOnce
  <1>7. Cardinality(B) = IF Blocked(c) THEN 1 ELSE 0
    BY <1>1, <1>4, CountOnce
  <1> QED
    BY <1>5, <1>6, <1>7

(* Of every call that is with the server exactly one record is kept, in    *)
(* the listen table, RECV_BLOCKED_TASKS or the reply, so that no thread    *)
(* is answered twice or forgotten; but nb_send may drop the answer to a    *)
(* Listen (only if a SYN is Hasty), and nothing answers a Send on a        *)
(* connection that was reset or whose buffer is full.                      *)
THEOREM CallsKeptOnce == Spec => []OneTokenPerCall
  <1>1. SyncInv => OneTokenPerCall
    <2> SUFFICES ASSUME SyncInv, NEW c \in Threads
                 PROVE  IF cl[c].st \in {"sent", "recv"}
                        THEN \/ Tokens(c) = 1
                             \/ /\ Tokens(c) = 0
                                /\ \/ Hasty /\ cl[c].op = "Listen"
                                   \/ /\ cl[c].op \in {"Send", "Bye"}
                                      /\ Cut(c) \/ "tx_full" \in faults
                        ELSE Tokens(c) = 0
      BY DEF OneTokenPerCall
    <2>1. Typed /\ Places /\ Kept(c) /\ Seat(c)
      BY DEF SyncInv, Places
    <2>2. Tokens(c) = (IF Waits(c) THEN 1 ELSE 0) + (IF Blocked(c) THEN 1 ELSE 0)
                         + (IF hand = c THEN 1 ELSE 0)
      BY <2>1, TokenCount
    <2>3. cl[c].op \in Ops /\ (cl[c].op # "Listen" => cl[c].fd # NoFd)
      BY <2>1 DEF Typed, ThreadSet
    <2>4. CASE cl[c].st \notin Inside
      BY <2>1, <2>2, <2>4 DEF Seat, Inside
    <2>5. CASE cl[c].st \in Inside /\ cl[c].op = "Listen"
      BY <2>1, <2>2, <2>5 DEF Seat, Kept, Inside
    <2>6. CASE cl[c].st \in Inside /\ cl[c].op = "Recv"
      BY <2>1, <2>2, <2>6 DEF Seat, Kept, Inside
    <2>7. CASE cl[c].st \in Inside /\ cl[c].op \in {"Send", "Bye"}
      BY <2>1, <2>2, <2>3, <2>7 DEF Seat, Kept, Inside, Cut
    <2> QED
      BY <2>3, <2>4, <2>5, <2>6, <2>7 DEF Ops
  <1> QED
    BY <1>1, SyncInvariant, PTL

(* The handle incoming_tcp_packet pops from the syn queue is the socket    *)
(* smoltcp binds to that SYN, for any number of threads and peers and any  *)
(* LISTEN_QUEUE_SIZE, unless a SYN is sent again.                          *)
THEOREM ThreadsConnected == Spec => []GivenSocketsConnected
  <1>1. SyncInv => GivenSocketsConnected
    BY DEF SyncInv, Handles
  <1> QED
    BY <1>1, SyncInvariant, PTL

(* Neither read path, the request's or process_blocked_task's, which reads *)
(* all there is and passes one byte on, loses a byte of a peer that waits  *)
(* for each answer.                                                        *)
THEOREM BytesKept == Spec => []NoByteLost
  <1>1. SyncInv => NoByteLost
    <2> SUFFICES ASSUME SyncInv, "burst" \notin faults, NEW c \in Threads, cl[c].fd # NoFd,
                        NEW p \in sock[cl[c].fd].peer
                 PROVE  peer[p].sent = InFlight(p) + Len(sock[cl[c].fd].rx)
                                         + (IF Read(c) THEN 1 ELSE 0) + cl[c].seen
      BY DEF NoByteLost
    <2>1. Typed /\ Bytes
      BY DEF SyncInv
    <2>2. cl[c].op # "Listen" /\ sock[cl[c].fd] \in SockSet
      BY <2>1, HandleFacts, TypedSeqs DEF Typed
    <2>3. p \in Peers /\ Owner(cl[c].fd, p)
      BY <2>2 DEF SockSet, Owner
    <2>4. Seen(c, p)
      BY <2>1, <2>2, <2>3 DEF Bytes
    <2> QED
      BY <2>4 DEF Seen
  <1> QED
    BY <1>1, SyncInvariant, PTL
=============================================================================
