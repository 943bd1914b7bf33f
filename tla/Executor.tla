----------------------------- MODULE Executor -----------------------------
(***************************************************************************)
(* The Executor of async_runtime/src/executor.rs with the coroutine id     *)
(* allocator of async_runtime/src/coroutine.rs.  Both are thread-local:    *)
(* an executor is the record ex of one thread and each method an operator  *)
(* on it.  A coroutine is represented by its priority.  A ready queue is   *)
(* the FIFO of capacity MaxTask - 1 that RingBuffer implements, the        *)
(* priority bitmap and delay_wake_cids are sets of bit positions.          *)
(***************************************************************************)
EXTENDS Integers, Sequences, FiniteSets

CONSTANTS MaxCid,    \* ids of CID_ALLOCATOR, 4096
          MaxTask,   \* MAX_TASK_NUM, 2048: slots of tasks and of a ready ring
          MaxPrio,   \* MAX_PRIO_NUM, 8
          WordBits   \* bits of delay_wake_cids, 64

ASSUME ExecutorAssumption ==
    /\ MaxCid \in Nat \ {0}
    /\ MaxTask \in 1 .. MaxCid
    /\ MaxPrio \in Nat \ {0}
    /\ WordBits \in 1 .. MaxTask

Cids    == 0 .. MaxCid - 1
TaskIds == 0 .. MaxTask - 1
Prios   == 0 .. MaxPrio - 1
NoTask  == -1     \* tasks[cid] = None
NoCid   == -1     \* current = None, and fetch() = None

New ==
    [ready   |-> [p \in Prios |-> <<>>],
     bitmap  |-> {},
     tasks   |-> [c \in TaskIds |-> NoTask],
     num     |-> 0,
     current |-> NoCid,
     delay   |-> {},
     ids     |-> {},        \* ids handed out by CID_ALLOCATOR
     panic   |-> FALSE]

Live(ex) == {c \in TaskIds : ex.tasks[c] # NoTask}

is_empty(ex) == ex.num = 0

find_first_one(bits) == CHOOSE b \in bits : \A d \in bits : b <= d

(* RingBuffer::push(..).unwrap() on the ready queue of priority p. *)
PushReady(ex, p, c) ==
    IF Len(ex.ready[p]) < MaxTask - 1
    THEN [ex EXCEPT !.bitmap = @ \cup {p}, !.ready[p] = Append(@, c)]
    ELSE [ex EXCEPT !.bitmap = @ \cup {p}, !.panic = TRUE]

(* CID_ALLOCATOR.allocate(): the lowest free index. *)
FreeCids(ex) == Cids \ ex.ids

(* Mutant of Spawn: the coroutine is queued without its priority bit. *)
SpawnNoBit(ex, prio) ==
    LET cid == find_first_one(FreeCids(ex))
    IN  [ex EXCEPT !.ready[prio] = Append(@, cid), !.ids = @ \cup {cid},
                   !.tasks[cid] = prio, !.num = @ + 1]

(* spawn: an exhausted allocator, a full ready ring and an id past the     *)
(* task array all panic.                                                   *)
Spawn(ex, prio) ==
    IF FreeCids(ex) = {}
    THEN [ex EXCEPT !.panic = TRUE]
    ELSE LET cid == find_first_one(FreeCids(ex))
             e   == PushReady([ex EXCEPT !.ids = @ \cup {cid}], prio, cid)
         IN  IF e.panic \/ cid \notin TaskIds
             THEN [e EXCEPT !.panic = TRUE]
             ELSE [e EXCEPT !.tasks[cid] = prio, !.num = @ + 1]

(* A loop that spawns n coroutines of one priority. *)
SpawnMany(ex, n, prio) ==
    LET turn[i \in 0 .. n] == IF i = 0 THEN ex ELSE Spawn(turn[i - 1], prio)
    IN  turn[n]

(* wake: a coroutine that no longer exists is ignored. *)
Wake(ex, cid) ==
    IF ex.tasks[cid] = NoTask THEN ex ELSE PushReady(ex, ex.tasks[cid], cid)

(* delay_wake: what the interrupt handler does instead of wake. *)
DelayWake(ex, cid) ==
    IF cid < WordBits THEN [ex EXCEPT !.delay = @ \cup {cid}]
                      ELSE [ex EXCEPT !.panic = TRUE]

(* One turn of actual_wake's loop.  word has the bits the loop will still  *)
(* see.  Having woken bit i the loop clears bit i of the word it has       *)
(* already shifted right by i, that is bit 2 * i of word, so that          *)
(* coroutine is not woken (bit 0 clears itself).                           *)
WakeBit(l, i) ==
    IF i \in l.word THEN [ex |-> Wake(l.ex, i), word |-> l.word \ {2 * i}] ELSE l

(* The executor and word after the turns for the bits below i. *)
WakeLoop(ex) ==
    LET turn[i \in 0 .. WordBits] ==
            IF i = 0 THEN [ex |-> [ex EXCEPT !.delay = {}], word |-> ex.delay]
                     ELSE WakeBit(turn[i - 1], i - 1)
    IN  turn

(* actual_wake: take the whole word, then wake its coroutines by index. *)
ActualWake(ex) == WakeLoop(ex)[WordBits].ex

(* Mutant of PopReady: the priority bit is cleared with more queued. *)
PopReadyClearsBit(e, p) ==
    LET c == Head(e.ready[p])
    IN  IF e.ready[p] = <<>> THEN [ex |-> e, got |-> NoCid]
        ELSE [ex  |-> [e EXCEPT !.ready[p] = Tail(@), !.current = c,
                                !.bitmap = @ \ {p}],
              got |-> c]

(* The pop of fetch.  The priority bit is cleared only on the path that    *)
(* returns a coroutine: an id whose coroutine is gone is consumed, the bit *)
(* stays and fetch returns None, as it does for a bit without a queue.     *)
PopReady(e, p) ==
    LET c == Head(e.ready[p])
        q == Tail(e.ready[p])
    IN  IF e.ready[p] = <<>>
        THEN [ex |-> e, got |-> NoCid]
        ELSE IF e.tasks[c] = NoTask
        THEN [ex |-> [e EXCEPT !.ready[p] = q], got |-> NoCid]
        ELSE [ex  |-> [e EXCEPT !.ready[p] = q, !.current = c,
                                !.bitmap = IF q = <<>> THEN @ \ {p} ELSE @],
              got |-> c]

(* Mutant of Fetch: the interrupt handler's wakes are dropped. *)
FetchDropsDelayed(ex) ==
    LET e == [ex EXCEPT !.delay = {}]
    IN  IF e.bitmap = {} THEN [ex |-> e, got |-> NoCid]
        ELSE PopReady(e, find_first_one(e.bitmap))

(* Mutant of Fetch: the lowest priority is served first. *)
FetchLowestFirst(ex) ==
    LET e == ActualWake(ex)
    IN  IF e.bitmap = {} THEN [ex |-> e, got |-> NoCid]
        ELSE PopReady(e, CHOOSE b \in e.bitmap : \A d \in e.bitmap : b >= d)

(* fetch: the delayed wakes, then the first ready queue in priority order. *)
Fetch(ex) ==
    LET e == ActualWake(ex)
    IN  IF e.bitmap = {} THEN [ex |-> e, got |-> NoCid]
        ELSE PopReady(e, find_first_one(e.bitmap))

(* switch_possible: is something of a higher priority than the running     *)
(* coroutine's marked ready?  (find_first_one of an empty map is 64.)      *)
SwitchPossible(ex) ==
    LET e == ActualWake(ex)
    IN  [ex  |-> e,
         yes |-> /\ e.bitmap # {}
                 /\ find_first_one(e.bitmap) < e.tasks[e.current]]

(* Mutant of RemoveTask: the id is not given back to the allocator. *)
RemoveTaskKeepsId(ex, cid) ==
    [ex EXCEPT !.tasks[cid] = NoTask, !.num = @ - 1]

RemoveTask(ex, cid) ==
    [ex EXCEPT !.tasks[cid] = NoTask, !.num = @ - 1, !.ids = @ \ {cid}]

-----------------------------------------------------------------------------
(* Facts every reachable executor satisfies, used by the modules that run  *)
(* one.                                                                    *)

(* The ids queued for priority p. *)
Queued(ex, p) == {ex.ready[p][k] : k \in DOMAIN ex.ready[p]}

(* The fields of an executor have the ranges of their Rust types. *)
ExecutorType(ex) ==
    ex \in [ready   : [Prios -> Seq(Cids)],
            bitmap  : SUBSET Prios,
            tasks   : [TaskIds -> Prios \cup {NoTask}],
            num     : Nat,
            current : TaskIds \cup {NoCid},
            delay   : SUBSET (0 .. WordBits - 1),
            ids     : SUBSET Cids,
            panic   : BOOLEAN]

(* The ready structure is exact: a priority bit is set if and only if its  *)
(* queue is not empty, and a queue holds live coroutines of its priority,  *)
(* each once.                                                              *)
Exact(ex) ==
    \A p \in Prios :
        /\ p \in ex.bitmap <=> ex.ready[p] # <<>>
        /\ \A k \in DOMAIN ex.ready[p] :
              /\ ex.tasks[ex.ready[p][k]] = p
              /\ \A j \in DOMAIN ex.ready[p] :
                    ex.ready[p][j] = ex.ready[p][k] => j = k
=============================================================================
