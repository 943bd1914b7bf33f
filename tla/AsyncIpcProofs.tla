-------------------------- MODULE AsyncIpcProofs --------------------------
(***************************************************************************)
(* What asynchronous IPC guarantees, proved for any number of callers and  *)
(* of calls, under both kinds of scheduler.                                *)
(***************************************************************************)
EXTENDS AsyncIpc, ExecutorProofs

(* The sizes the code has: both rings have a slot for every caller, and a  *)
(* ready ring has room for two wakes of one receiver.                      *)
Sizes == CoroutineNum <= RingSize /\ MaxTask > 2

One(b) == IF b THEN 1 ELSE 0

-----------------------------------------------------------------------------
(* Executors with one receiver, of priority r, and callers C. *)

(* A queue and the task array hold the receiver and the callers only, each *)
(* in its place, and a caller is queued at most once.                      *)
Shape(x, r, C) ==
    /\ ExecutorType(x) /\ QueuesTyped(x) /\ IdsMatch(x) /\ ~x.panic
    /\ x.delay \subseteq {Receiver}
    /\ \A p \in Prios : \A c \in Queued(x, p) : (c = Receiver /\ p = r) \/ (c \in C /\ p = 1)
    /\ \A c \in Live(x) : (c = Receiver /\ x.tasks[c] = r) \/ (c \in C /\ x.tasks[c] = 1)
    /\ \A i, j \in DOMAIN x.ready[1] :
          x.ready[1][i] = x.ready[1][j] /\ x.ready[1][i] \in C => i = j

(* The wakes the receiver has still to run for. *)
Wakes(x, r) == Len(x.ready[r]) + One(Receiver \in x.delay)

(* The receiver will run. *)
Coming(x, r) == Receiver \in Queued(x, r) \/ Receiver \in x.delay

(* The executors of the two threads. *)
Kind(r, C) == (r = 1 /\ C = {}) \/ (r = 0 /\ C = Callers)

LEMMA Sized ==
    /\ 0 \in Prios /\ 1 \in Prios /\ Receiver \in TaskIds /\ Receiver \notin Callers
    /\ Callers \subseteq TaskIds
    /\ IsFiniteSet(Callers) /\ Cardinality(Callers) = CoroutineNum
    /\ CoroutineNum \in Nat \ {0} /\ CoroutineNum <= MaxTask - 1
    /\ SendNum \in Nat \ {0} /\ RingSize \in Nat \ {0}
    /\ NoItem \notin Callers
<1>1. IsFiniteSet(Callers) /\ Cardinality(Callers) = CoroutineNum
  BY IpcAssumption, FS_Interval DEF Callers
<1>2. CoroutineNum \in Nat \ {0} /\ CoroutineNum < MaxTask /\ MaxTask \in Nat /\ MaxPrio > 1
      /\ MaxPrio \in Nat
  BY IpcAssumption, Constants
<1> QED  BY <1>1, <1>2, IpcAssumption DEF Receiver, Callers, TaskIds, Prios, NoItem

(* A sequence over S without repetitions is no longer than S is large. *)
LEMMA DistinctLength ==
    ASSUME NEW S, IsFiniteSet(S), NEW s \in Seq(S),
           \A i, j \in DOMAIN s : s[i] = s[j] => i = j
    PROVE  Len(s) <= Cardinality(S) /\ Cardinality(S) \in Nat
<1>1. Len(s) \in Nat /\ s \in [1 .. Len(s) -> S] /\ DOMAIN s = 1 .. Len(s)
  BY LenProperties
<1>2. s \in Injection(1 .. Len(s), S)  BY <1>1 DEF Injection, IsInjective
<1>3. Cardinality(1 .. Len(s)) <= Cardinality(S)  BY <1>2, FS_Injection
<1>4. Cardinality(1 .. Len(s)) = Len(s)  BY <1>1, FS_Interval
<1> QED  BY <1>3, <1>4, FS_CardinalityType

(* The parts of Shape that are about the queues. *)
LEMMA ShapeQueues ==
    ASSUME NEW x, NEW r, NEW C, Kind(r, C), Shape(x, r, C)
    PROVE  /\ x.ready \in [Prios -> Seq(TaskIds)] /\ r \in Prios /\ 1 \in Prios
           /\ x.tasks \in [TaskIds -> Prios \cup {NoTask}]
           /\ Len(x.ready[r]) \in Nat /\ DOMAIN x.ready[r] = 1 .. Len(x.ready[r])
           /\ \A k \in DOMAIN x.ready[r] : x.ready[r][k] = Receiver
           /\ Receiver \in Queued(x, r) <=> Len(x.ready[r]) > 0
           /\ Wakes(x, r) \in Nat
<1>1. x.ready \in [Prios -> Seq(TaskIds)] /\ r \in Prios /\ 1 \in Prios
  BY Sized DEF Shape, QueuesTyped, Kind
<1>2. x.tasks \in [TaskIds -> Prios \cup {NoTask}]  BY DEF Shape, ExecutorType
<1> DEFINE s == x.ready[r]
<1>3. Len(s) \in Nat /\ DOMAIN s = 1 .. Len(s)
  <2>1. s \in Seq(TaskIds)  BY <1>1
  <2> QED  BY <2>1, LenProperties
<1>4. \A k \in DOMAIN s : s[k] = Receiver
  <2>1. \A c \in Queued(x, r) : c = Receiver  BY <1>1 DEF Shape, Kind
  <2> QED  BY <2>1 DEF Queued
<1>5. Receiver \in Queued(x, r) <=> Len(s) > 0
  <2>1. Len(s) > 0 => 1 \in DOMAIN s /\ s[1] = Receiver  BY <1>3, <1>4
  <2>2. DOMAIN s # {} => Len(s) > 0  BY <1>3
  <2> QED  BY <2>1, <2>2 DEF Queued
<1> HIDE DEF s
<1>6. Len(s) + One(Receiver \in x.delay) \in Nat  BY <1>3 DEF One
<1> QED  BY <1>1, <1>2, <1>3, <1>4, <1>5, <1>6 DEF s, Wakes

(* Shape looks at the queues, the tasks, the ids and the word only. *)
LEMMA ShapeSame ==
    ASSUME NEW x, NEW r, NEW C, Shape(x, r, C), NEW e, ExecutorType(e), ~e.panic,
           e.ready = x.ready, e.tasks = x.tasks, e.num = x.num, e.ids = x.ids,
           e.delay \subseteq {Receiver}
    PROVE  /\ Shape(e, r, C) /\ Live(e) = Live(x)
           /\ \A p \in Prios : Queued(e, p) = Queued(x, p)
<1>1. Live(e) = Live(x)  BY DEF Live
<1>2. \A p \in Prios : Queued(e, p) = Queued(x, p)  BY DEF Queued
<1> QED  BY <1>1, <1>2 DEF Shape, QueuesTyped, IdsMatch

(* wake of the receiver. *)
LEMMA ShapeWakeReceiver ==
    ASSUME NEW x, NEW r, NEW C, Kind(r, C), Shape(x, r, C), Len(x.ready[r]) < MaxTask - 1
    PROVE  LET e == Wake(x, Receiver)
           IN  /\ Shape(e, r, C) /\ Frame(x, e) /\ e.delay = x.delay
               /\ Len(e.ready[r]) = Len(x.ready[r]) + One(Receiver \in Live(x))
               /\ \A q \in Prios \ {r} : e.ready[q] = x.ready[q]
<1> DEFINE c == Receiver
           e == Wake(x, c)
<1>0. /\ ExecutorType(x) /\ QueuesTyped(x) /\ IdsMatch(x) /\ ~x.panic /\ c \in TaskIds
      /\ r \in Prios /\ x.ready \in [Prios -> Seq(TaskIds)] /\ Len(x.ready[r]) \in Nat
  BY Sized, ShapeQueues DEF Shape
<1>1. CASE c \notin Live(x)
  <2>1. e = x  BY <1>0, <1>1 DEF Wake, Live
  <2> HIDE DEF e
  <2> QED  BY <1>0, <1>1, <2>1 DEF Frame, One, e
<1>2. CASE c \in Live(x)
  <2>1. x.tasks[c] = r /\ x.tasks[c] # NoTask
    BY <1>2, Sized DEF Shape, Live, Kind
  <2>2. e = PushReady(x, r, c) /\ c \in Cids  BY <1>0, <2>1, Constants DEF Wake
  <2> HIDE DEF e
  <2>3. /\ ExecutorType(e) /\ Frame(x, e) /\ e.delay = x.delay /\ ~e.panic
        /\ e.ready = [x.ready EXCEPT ![r] = Append(@, c)]
    BY <1>0, <2>2, PushReadyFacts
  <2>4. QueuesTyped(e) /\ Queued(e, r) \subseteq Queued(x, r) \cup {c}
    BY <1>0, <2>2, PushReadyQueued
  <2>5. e.ready[r] = Append(x.ready[r], c) /\ \A q \in Prios \ {r} : e.ready[q] = x.ready[q]
    BY <1>0, <2>3
  <2>6. Len(e.ready[r]) = Len(x.ready[r]) + 1
    <3>1. x.ready[r] \in Seq(TaskIds)  BY <1>0
    <3> QED  BY <1>0, <2>5, <3>1, AppendFacts
  <2>7. Live(e) = Live(x) /\ IdsMatch(e) /\ e.tasks = x.tasks
    BY <1>0, <2>3 DEF Frame, Live, IdsMatch
  <2>8. \A p \in Prios : \A d \in Queued(e, p) : (d = c /\ p = r) \/ (d \in C /\ p = 1)
    <3>1. \A p \in Prios \ {r} : Queued(e, p) = Queued(x, p)  BY <2>5 DEF Queued
    <3> QED  BY <2>4, <3>1 DEF Shape
  <2>9. \A i, j \in DOMAIN e.ready[1] :
           e.ready[1][i] = e.ready[1][j] /\ e.ready[1][i] \in C => i = j
    BY <2>5, Sized DEF Shape, Kind
  <2>10. Shape(e, r, C)  BY <2>3, <2>4, <2>7, <2>8, <2>9 DEF Shape
  <2> QED  BY <1>2, <2>3, <2>5, <2>6, <2>10 DEF One, e
<1> QED  BY <1>1, <1>2

(* wake of a caller that is not queued: there is room for all of them. *)
LEMMA ShapeWakeCaller ==
    ASSUME NEW x, Shape(x, 0, Callers), NEW c \in Callers, c \notin Queued(x, 1)
    PROVE  LET e == Wake(x, c)
           IN  /\ Shape(e, 0, Callers) /\ Frame(x, e) /\ e.delay = x.delay
               /\ e.ready[0] = x.ready[0]
               /\ Queued(e, 1) \subseteq Queued(x, 1) \cup {c}
<1> DEFINE e == Wake(x, c)
<1>k. Kind(0, Callers)  BY DEF Kind
<1>0. /\ ExecutorType(x) /\ QueuesTyped(x) /\ IdsMatch(x) /\ ~x.panic
      /\ c \in TaskIds /\ c # Receiver
      /\ 0 \in Prios /\ 1 \in Prios /\ x.ready \in [Prios -> Seq(TaskIds)]
  BY <1>k, Sized, ShapeQueues DEF Shape
<1>1. CASE c \notin Live(x)
  <2>1. e = x  BY <1>0, <1>1 DEF Wake, Live
  <2> HIDE DEF e
  <2> QED  BY <1>0, <2>1 DEF Frame, e
<1>2. CASE c \in Live(x)
  <2>1. x.tasks[c] = 1 /\ x.tasks[c] # NoTask  BY <1>0, <1>2 DEF Shape, Live
  <2>2. e = PushReady(x, 1, c) /\ c \in Cids  BY <1>0, <2>1, Constants DEF Wake
  <2> DEFINE s == x.ready[1]
             t == Append(s, c)
  <2>3. s \in Seq(TaskIds)  BY <1>0
  <2>4. /\ Len(s) \in Nat /\ DOMAIN s = 1 .. Len(s) /\ DOMAIN t = 1 .. Len(s) + 1
        /\ \A k \in 1 .. Len(s) : t[k] = s[k]
        /\ t[Len(s) + 1] = c
    BY <1>0, <2>3, AppendFacts
  <2>5. \A k \in 1 .. Len(s) : s[k] \in Callers /\ s[k] # c
    <3>1. \A k \in 1 .. Len(s) : s[k] \in Queued(x, 1)  BY <2>4 DEF Queued
    <3> QED  BY <1>0, <3>1 DEF Shape
  <2>6. \A i, j \in 1 .. Len(s) : s[i] = s[j] => i = j
    BY <2>4, <2>5 DEF Shape
  <2>7. Len(s) < MaxTask - 1
    <3>1. s \in Seq(Callers \ {c})
      <4>1. \A k \in 1 .. Len(s) : s[k] \in Callers \ {c}  BY <2>5
      <4> HIDE DEF s
      <4>2. s = [k \in 1 .. Len(s) |-> s[k]]  BY <2>3, LenProperties
      <4> QED  BY <4>1, <4>2, <2>4, IsASeq
    <3>2. IsFiniteSet(Callers \ {c}) /\ Cardinality(Callers \ {c}) = CoroutineNum - 1
      BY Sized, FS_RemoveElement
    <3> HIDE DEF s
    <3>3. Len(s) <= Cardinality(Callers \ {c})
      BY <2>4, <2>6, <3>1, <3>2, DistinctLength
    <3> QED  BY <2>4, <3>2, <3>3, Sized, Constants
  <2> HIDE DEF e
  <2>8. /\ ExecutorType(e) /\ Frame(x, e) /\ e.delay = x.delay /\ ~e.panic
        /\ e.ready = [x.ready EXCEPT ![1] = Append(@, c)]
    BY <1>0, <2>2, <2>7, PushReadyFacts
  <2>9. QueuesTyped(e) /\ Queued(e, 1) \subseteq Queued(x, 1) \cup {c}
    BY <1>0, <2>2, PushReadyQueued
  <2>10. e.ready[1] = t /\ \A q \in Prios \ {1} : e.ready[q] = x.ready[q]
    BY <1>0, <2>8
  <2>11. Live(e) = Live(x) /\ IdsMatch(e) /\ e.tasks = x.tasks
    BY <1>0, <2>8 DEF Frame, Live, IdsMatch
  <2>12. \A p \in Prios : \A d \in Queued(e, p) :
            (d = Receiver /\ p = 0) \/ (d \in Callers /\ p = 1)
    <3>1. \A p \in Prios \ {1} : Queued(e, p) = Queued(x, p)  BY <2>10 DEF Queued
    <3> QED  BY <2>9, <3>1 DEF Shape
  <2> HIDE DEF s, t
  <2>13. \A i, j \in DOMAIN t : t[i] = t[j] => i = j  BY <2>4, <2>5, <2>6
  <2>14. Shape(e, 0, Callers)  BY <2>8, <2>9, <2>10, <2>11, <2>12, <2>13 DEF Shape
  <2> QED  BY <1>0, <2>8, <2>9, <2>10, <2>14 DEF e
<1> QED  BY <1>1, <1>2

(* remove_task of a live coroutine. *)
LEMMA ShapeRemove ==
    ASSUME NEW x, NEW r, NEW C, Kind(r, C), Shape(x, r, C), NEW c \in Live(x)
    PROVE  LET e == RemoveTask(x, c)
           IN  /\ Shape(e, r, C) /\ Live(e) = Live(x) \ {c}
               /\ e.ready = x.ready /\ e.delay = x.delay /\ e.current = x.current
               /\ \A p \in Prios : Queued(e, p) = Queued(x, p)
<1> DEFINE e == RemoveTask(x, c)
<1>0. ExecutorType(x) /\ IdsMatch(x)  BY DEF Shape
<1>1. /\ ExecutorType(e) /\ IdsMatch(e)
      /\ e.ready = x.ready /\ e.delay = x.delay /\ e.panic = x.panic /\ e.current = x.current
      /\ e.tasks = [x.tasks EXCEPT ![c] = NoTask]
      /\ Live(e) = Live(x) \ {c}
  BY <1>0, RemoveTaskFacts
<1> HIDE DEF e
<1>2. \A d \in Live(e) : e.tasks[d] = x.tasks[d]
  BY <1>0, <1>1 DEF ExecutorType, Live
<1>3. \A p \in Prios : Queued(e, p) = Queued(x, p)  BY <1>1 DEF Queued
<1>4. Shape(e, r, C)  BY <1>1, <1>2, <1>3 DEF Shape, QueuesTyped
<1> QED  BY <1>1, <1>3, <1>4 DEF e

(* delay_wake of the receiver. *)
LEMMA ShapeDelay ==
    ASSUME NEW x, NEW r, NEW C, Kind(r, C), Shape(x, r, C)
    PROVE  LET e == DelayWake(x, Receiver)
           IN  /\ Shape(e, r, C) /\ Frame(x, e) /\ e.ready = x.ready
               /\ e.delay = {Receiver}
<1> DEFINE e == DelayWake(x, Receiver)
<1>0. ExecutorType(x) /\ ~x.panic /\ x.delay \subseteq {Receiver}  BY DEF Shape
<1>1. Receiver < WordBits /\ Receiver \in 0 .. WordBits - 1  BY Constants DEF Receiver
<1>2. e = [x EXCEPT !.delay = @ \cup {Receiver}]  BY <1>1 DEF DelayWake
<1> HIDE DEF e
<1>3. /\ ExecutorType(e) /\ e.delay = {Receiver} /\ e.ready = x.ready /\ ~e.panic /\ Frame(x, e)
  BY <1>0, <1>1, <1>2 DEF ExecutorType, Frame
<1>4. Shape(e, r, C)  BY <1>3, ShapeSame DEF Frame
<1> QED  BY <1>3, <1>4 DEF e

(* The delayed wake of the receiver is carried out. *)
LEMMA ShapeActualWake ==
    ASSUME NEW x, NEW r, NEW C, Kind(r, C), Shape(x, r, C),
           Receiver \in x.delay => Len(x.ready[r]) < MaxTask - 1
    PROVE  LET e == ActualWake(x)
           IN  /\ Shape(e, r, C) /\ Frame(x, e) /\ e.delay = {}
               /\ Len(e.ready[r]) <= Wakes(x, r)
               /\ Receiver \in Live(x) => Len(e.ready[r]) = Wakes(x, r)
               /\ \A q \in Prios \ {r} : e.ready[q] = x.ready[q]
<1> DEFINE e == ActualWake(x)
           y == [x EXCEPT !.delay = {}]
<1>0. /\ ExecutorType(x) /\ ~x.panic /\ x.delay \subseteq {Receiver}
      /\ Len(x.ready[r]) \in Nat /\ r \in Prios
  BY ShapeQueues DEF Shape
<1>1. e = IF Receiver \in x.delay THEN Wake(y, Receiver) ELSE y
  BY <1>0, ActualWakeOne DEF Receiver
<1>2. /\ ExecutorType(y) /\ y.delay = {} /\ y.ready = x.ready /\ ~y.panic /\ Frame(x, y)
  BY <1>0 DEF ExecutorType, Frame
<1> HIDE DEF e, y
<1>3. Shape(y, r, C) /\ Live(y) = Live(x)  BY <1>2, ShapeSame DEF Frame
<1>4. CASE Receiver \in x.delay
  <2>1. e = Wake(y, Receiver) /\ Len(y.ready[r]) < MaxTask - 1  BY <1>1, <1>2, <1>4
  <2>2. /\ Shape(e, r, C) /\ Frame(y, e) /\ e.delay = y.delay
        /\ Len(e.ready[r]) = Len(y.ready[r]) + One(Receiver \in Live(y))
        /\ \A q \in Prios \ {r} : e.ready[q] = y.ready[q]
    BY <1>3, <2>1, ShapeWakeReceiver
  <2>3. Frame(x, e)  BY <1>2, <2>2 DEF Frame
  <2>4. Len(e.ready[r]) = Len(x.ready[r]) + One(Receiver \in Live(x))  BY <1>2, <1>3, <2>2
  <2>5. Wakes(x, r) = Len(x.ready[r]) + 1  BY <1>4 DEF Wakes, One
  <2>6. /\ Len(e.ready[r]) <= Wakes(x, r)
        /\ Receiver \in Live(x) => Len(e.ready[r]) = Wakes(x, r)
    <3>1. CASE Receiver \in Live(x)
      <4>1. One(Receiver \in Live(x)) = 1  BY <3>1 DEF One
      <4> QED  BY <1>0, <2>4, <2>5, <4>1
    <3>2. CASE Receiver \notin Live(x)
      <4>1. One(Receiver \in Live(x)) = 0  BY <3>2 DEF One
      <4> QED  BY <1>0, <2>4, <2>5, <3>2, <4>1
    <3> QED  BY <3>1, <3>2
  <2>7. e.delay = {} /\ \A q \in Prios \ {r} : e.ready[q] = x.ready[q]  BY <1>2, <2>2
  <2> QED  BY <2>2, <2>3, <2>6, <2>7 DEF e
<1>5. CASE Receiver \notin x.delay
  <2>1. e = y  BY <1>1, <1>5
  <2> QED  BY <1>0, <1>2, <1>3, <1>5, <2>1 DEF e, One, Wakes
<1> QED  BY <1>4, <1>5

(* What fetch took and what it left. *)
Fetched(x, f, r, C) ==
    /\ Shape(f.ex, r, C)
    /\ f.ex.tasks = x.tasks
    /\ f.ex.delay = {}
    /\ f.got \in C \cup {Receiver, NoCid}
    /\ f.got # NoCid => f.got \in Live(x) /\ f.ex.current = f.got
    /\ Wakes(f.ex, r) + One(f.got = Receiver) <= Wakes(x, r)
    /\ Receiver \in Live(x) /\ Coming(x, r) => Coming(f.ex, r) \/ f.got = Receiver
    /\ \A c \in C : c \in Queued(f.ex, 1) => c \in Queued(x, 1) /\ c # f.got
    /\ f.got \in C => f.got \in Queued(x, 1)

LEMMA ShapeFetch ==
    ASSUME NEW x, NEW r, NEW C, Kind(r, C), Shape(x, r, C),
           Receiver \in x.delay => Len(x.ready[r]) < MaxTask - 1
    PROVE  Fetched(x, Fetch(x), r, C)
<1> DEFINE e == ActualWake(x)
           f == Fetch(x)
<1>0. ExecutorType(x) /\ QueuesTyped(x) /\ r \in Prios /\ 1 \in Prios
      /\ Receiver \notin C /\ Receiver # NoCid /\ NoCid \notin C
  BY Sized, ShapeQueues, Constants DEF Shape, Kind
<1>1. /\ Shape(e, r, C) /\ Frame(x, e) /\ e.delay = {}
      /\ Len(e.ready[r]) <= Wakes(x, r)
      /\ Receiver \in Live(x) => Len(e.ready[r]) = Wakes(x, r)
      /\ \A q \in Prios \ {r} : e.ready[q] = x.ready[q]
  BY ShapeActualWake
<1>2. \/ e.bitmap = {} /\ f.ex = e /\ f.got = NoCid
      \/ \E p \in e.bitmap : Popped(e, f, p)
  BY <1>0, FetchCases
<1> HIDE DEF e, f
<1>3. /\ Live(e) = Live(x) /\ e.tasks = x.tasks  BY <1>1 DEF Frame, Live
<1>4. \A c \in C : c \in Queued(e, 1) => c \in Queued(x, 1)
  BY <1>0, <1>1 DEF Kind, Queued
<1>5. /\ Wakes(x, r) \in Nat /\ Len(e.ready[r]) \in Nat
      /\ Receiver \in Queued(e, r) <=> Len(e.ready[r]) > 0
      /\ Receiver \in Queued(x, r) <=> Len(x.ready[r]) > 0
      /\ Len(x.ready[r]) \in Nat
  BY <1>1, ShapeQueues
<1>6. Receiver \in Live(x) /\ Coming(x, r) => Len(e.ready[r]) > 0
  <2>1. Coming(x, r) => Wakes(x, r) > 0
    <3>1. CASE Receiver \in x.delay
      <4>1. One(Receiver \in x.delay) = 1  BY <3>1 DEF One
      <4> QED  BY <1>5, <4>1 DEF Wakes
    <3>2. CASE Receiver \notin x.delay
      <4>1. One(Receiver \in x.delay) = 0  BY <3>2 DEF One
      <4> QED  BY <1>5, <3>2, <4>1 DEF Wakes, Coming
    <3> QED  BY <3>1, <3>2
  <2> QED  BY <1>1, <2>1
<1>7. CASE f.ex = e /\ f.got = NoCid
  <2>1. Wakes(e, r) = Len(e.ready[r])  BY <1>1, <1>5 DEF Wakes, One
  <2>2. Receiver \in Live(x) /\ Coming(x, r) => Coming(e, r)  BY <1>5, <1>6 DEF Coming
  <2>3. Wakes(f.ex, r) + One(f.got = Receiver) <= Wakes(x, r)
    <3>1. One(f.got = Receiver) = 0  BY <1>0, <1>7 DEF One
    <3>2. Len(e.ready[r]) <= Wakes(x, r)  BY <1>1
    <3> QED  BY <1>5, <1>7, <2>1, <3>1, <3>2
  <2>4. \A c \in C : c \in Queued(e, 1) => c \in Queued(x, 1) /\ c # NoCid  BY <1>0, <1>4
  <2> QED  BY <1>0, <1>1, <1>3, <1>7, <2>2, <2>3, <2>4 DEF Fetched, f
<1>8. CASE \E p \in e.bitmap : Popped(e, f, p) /\ f.ex # e
  <2>1. PICK p \in e.bitmap : Popped(e, f, p) /\ f.ex # e  BY <1>8
  <2>2. ExecutorType(e) /\ QueuesTyped(e) /\ IdsMatch(e) /\ ~e.panic  BY <1>1 DEF Shape
  <2>3. p \in Prios  BY <2>2 DEF ExecutorType
  <2> DEFINE s == e.ready[p]
             t == Tail(s)
  <2>4. /\ s # <<>> /\ f.ex.ready[p] = t
        /\ \A q \in Prios \ {p} : f.ex.ready[q] = e.ready[q]
        /\ f.got = Head(s) \/ (f.got = NoCid /\ e.tasks[Head(s)] = NoTask)
        /\ f.got # NoCid => f.got \in Live(e) /\ f.ex.current = f.got
        /\ ExecutorType(f.ex) /\ QueuesTyped(f.ex) /\ f.ex.tasks = e.tasks
        /\ f.ex.num = e.num /\ f.ex.ids = e.ids /\ f.ex.delay = {} /\ ~f.ex.panic
    BY <1>1, <2>1, <2>2 DEF Popped
  <2>5. s \in Seq(TaskIds)  BY <2>2, <2>3 DEF QueuesTyped
  <2>6. /\ Head(s) = s[1] /\ Len(s) \in Nat \ {0} /\ DOMAIN s = 1 .. Len(s)
        /\ DOMAIN t = 1 .. Len(s) - 1 /\ \A k \in 1 .. Len(s) - 1 : t[k] = s[k + 1]
        /\ Len(t) = Len(s) - 1
    BY <2>4, <2>5, TailFacts
  <2>7. Head(s) \in Queued(e, p)  BY <2>6 DEF Queued
  <2>8. (Head(s) = Receiver /\ p = r) \/ (Head(s) \in C /\ p = 1)
    BY <1>1, <2>3, <2>7 DEF Shape
  <2>9. f.got \in C \cup {Receiver, NoCid}  BY <2>4, <2>8
  <2>10. \A q \in Prios : Queued(f.ex, q) \subseteq Queued(e, q)
    BY <2>1, <2>2, <2>3, PoppedQueued
  <2>11. Live(f.ex) = Live(e) /\ IdsMatch(f.ex)  BY <2>2, <2>4 DEF Live, IdsMatch
  <2>12. \A i, j \in DOMAIN f.ex.ready[1] :
            f.ex.ready[1][i] = f.ex.ready[1][j] /\ f.ex.ready[1][i] \in C => i = j
    <3>1. CASE p # 1  BY <1>0, <1>1, <2>4, <3>1 DEF Shape
    <3>2. CASE p = 1
      <4>1. \A i, j \in DOMAIN s : s[i] = s[j] /\ s[i] \in C => i = j
        BY <1>1, <3>2 DEF Shape
      <4> HIDE DEF s, t
      <4>2. ASSUME NEW i \in 1 .. Len(s) - 1, NEW j \in 1 .. Len(s) - 1, t[i] = t[j], t[i] \in C
            PROVE  i = j
        <5>1. s[i + 1] = s[j + 1] /\ s[i + 1] \in C  BY <2>6, <4>2
        <5>2. i + 1 = j + 1  BY <2>6, <4>1, <5>1
        <5> QED  BY <5>2
      <4> QED  BY <2>4, <2>6, <3>2, <4>2
    <3> QED  BY <3>1, <3>2
  <2>13. Shape(f.ex, r, C)
    <3>1. \A q \in Prios : \A c \in Queued(f.ex, q) : (c = Receiver /\ q = r) \/ (c \in C /\ q = 1)
      BY <1>1, <2>10 DEF Shape
    <3> QED  BY <1>1, <2>4, <2>11, <2>12, <3>1 DEF Shape
  <2>14. CASE Head(s) = Receiver /\ p = r
    <3>1. /\ Len(f.ex.ready[r]) = Len(e.ready[r]) - 1  BY <2>4, <2>6, <2>14
    <3>2. Wakes(f.ex, r) = Len(e.ready[r]) - 1  BY <1>5, <2>4, <3>1 DEF Wakes, One
    <3>3. Wakes(f.ex, r) + One(f.got = Receiver) <= Wakes(x, r)
      <4>1. One(f.got = Receiver) \in {0, 1}  BY DEF One
      <4>2. Len(e.ready[r]) <= Wakes(x, r)  BY <1>1
      <4> QED  BY <1>5, <3>2, <4>1, <4>2
    <3>4. Receiver \in Live(x) => f.got = Receiver
      BY <1>3, <2>4, <2>14 DEF Live
    <3>5. f.got \notin C  BY <1>0, <2>4, <2>14
    <3>6. \A c \in C : c \in Queued(f.ex, 1) => c \in Queued(x, 1) /\ c # f.got
      BY <1>0, <1>4, <2>10, <3>5
    <3> QED
      BY <1>3, <2>4, <2>9, <2>13, <3>3, <3>4, <3>5, <3>6 DEF Fetched, f
  <2>15. CASE Head(s) \in C /\ p = 1
    <3>1. r # 1 /\ f.got # Receiver  BY <1>0, <2>4, <2>15 DEF Kind
    <3>2. f.ex.ready[r] = e.ready[r]  BY <1>0, <2>4, <2>15, <3>1
    <3>3. Wakes(f.ex, r) = Len(e.ready[r])  BY <1>5, <2>4, <3>2 DEF Wakes, One
    <3>4. Receiver \in Live(x) /\ Coming(x, r) => Coming(f.ex, r)
      BY <1>5, <1>6, <3>2 DEF Coming, Queued
    <3>5. Head(s) \notin Queued(f.ex, 1)
      <4>1. \A i, j \in DOMAIN s : s[i] = s[j] /\ s[i] \in C => i = j
        BY <1>1, <2>15 DEF Shape
      <4> HIDE DEF s, t
      <4>2. Queued(f.ex, 1) = {t[k] : k \in DOMAIN t}
        <5>1. f.ex.ready[1] = t  BY <2>4, <2>15
        <5> QED  BY <5>1 DEF Queued
      <4>3. \A k \in DOMAIN t : t[k] # Head(s)  BY <2>6, <2>15, <4>1
      <4> QED  BY <4>2, <4>3
    <3>6. Head(s) \in Queued(x, 1)  BY <1>4, <2>7, <2>15
    <3>7. \A c \in C : c \in Queued(f.ex, 1) => c \in Queued(x, 1) /\ c # f.got
      BY <1>0, <1>4, <2>4, <2>10, <3>5
    <3>8. Wakes(f.ex, r) + One(f.got = Receiver) <= Wakes(x, r)
      <4>1. One(f.got = Receiver) = 0  BY <3>1 DEF One
      <4>2. Len(e.ready[r]) <= Wakes(x, r)  BY <1>1
      <4> QED  BY <1>5, <3>3, <4>1, <4>2
    <3>9. f.got \in C => f.got \in Queued(x, 1)  BY <1>0, <2>4, <3>6
    <3> QED
      BY <1>3, <2>4, <2>9, <2>13, <3>4, <3>7, <3>8, <3>9 DEF Fetched, f
  <2> QED  BY <2>8, <2>14, <2>15
<1> QED
  <2>1. ASSUME NEW p \in e.bitmap, Popped(e, f, p), f.ex = e  PROVE f.got = NoCid
    <3>1. ExecutorType(e) /\ QueuesTyped(e)  BY <1>1 DEF Shape
    <3>2. p \in Prios /\ e.ready[p] \in Seq(TaskIds)
      BY <3>1 DEF ExecutorType, QueuesTyped
    <3>3. e.ready[p] # <<>> => Tail(e.ready[p]) # e.ready[p]
      <4>1. e.ready[p] # <<>> => Len(Tail(e.ready[p])) # Len(e.ready[p])
        BY <3>2, TailFacts
      <4> QED  BY <4>1
    <3> QED  BY <2>1, <3>3 DEF Popped
  <2> QED  BY <1>2, <1>7, <1>8, <2>1

(* A new executor, and one with its receiver spawned. *)
LEMMA ShapeNew ==
    ASSUME NEW r, NEW C, Kind(r, C)
    PROVE  Shape(New, r, C) /\ Wakes(New, r) = 0 /\ Live(New) = {}
<1>1. New.ready[1] = <<>> /\ New.ready[r] = <<>>
  BY Sized DEF New, Kind
<1>2. Len(New.ready[r]) = 0 /\ DOMAIN New.ready[1] = {}  BY <1>1
<1>3. One(Receiver \in New.delay) = 0  BY NewFacts DEF One
<1> QED  BY <1>2, <1>3, NewFacts DEF Shape, Wakes

LEMMA ShapeSpawnReceiver ==
    ASSUME NEW r, NEW C, Kind(r, C)
    PROVE  LET e == Spawn(New, r)
           IN  /\ Shape(e, r, C) /\ Wakes(e, r) = 1 /\ Live(e) = {Receiver}
               /\ Exact(e) /\ e.delay = {} /\ e.tasks[Receiver] = r
               /\ Receiver \in Queued(e, r)
<1> DEFINE e == Spawn(New, r)
<1>0. r \in Prios /\ MaxTask \in Nat /\ MaxTask > 1 /\ 0 \in TaskIds
  BY Sized, Constants DEF Kind, Receiver
<1>1. Exact(e) /\ ~e.panic
  <2>0. Live(New) = {} /\ Cardinality({}) = 0  BY NewFacts, FS_EmptySet
  <2>1. Cardinality(Live(New)) < MaxTask - 1  BY <1>0, <2>0
  <2> QED  BY <1>0, <2>1, NewFacts, SpawnFits
<1>2. PICK c \in TaskIds : Spawned(New, e, r, c)  BY <1>0, <1>1, NewFacts, SpawnFacts
<1>3. /\ QueuesTyped(e) /\ IdsMatch(e) /\ Live(e) = {c}
      /\ \A p \in Prios : \A d \in Queued(e, p) : d = c /\ p = r
      /\ ExecutorType(e)
  <2>1. /\ ExecutorType(New) /\ QueuesTyped(New) /\ IdsMatch(New) /\ Live(New) = {}
        /\ \A p \in Prios : Queued(New, p) = {}
    BY NewFacts
  <2>2. ExecutorType(e)  BY <1>2 DEF Spawned
  <2> HIDE DEF e
  <2>3. /\ QueuesTyped(e) /\ IdsMatch(e) /\ Live(e) = Live(New) \cup {c}
        /\ \A p \in Prios : \A d \in Queued(e, p) : d \in Queued(New, p) \/ (d = c /\ p = r)
    BY <1>0, <1>2, <2>1, SpawnedMatch
  <2> QED  BY <2>1, <2>2, <2>3
<1>4. c = Receiver
  <2>1. 0 \notin New.ids  BY NewFacts DEF IdsMatch
  <2>2. c <= 0  BY <1>0, <1>2, <2>1 DEF Spawned
  <2> QED  BY <2>2, Constants DEF Receiver
<1>5. e.ready[r] = Append(New.ready[r], c) /\ e.delay = {} /\ e.tasks[c] = r
  BY <1>0, <1>2, NewFacts DEF Spawned, QueuesTyped, ExecutorType
<1>6. Len(e.ready[r]) = 1
  <2>1. New.ready[r] = <<>>  BY <1>0 DEF New
  <2>2. Append(<<>>, c) = <<c>>  OBVIOUS
  <2> QED  BY <1>5, <2>1, <2>2
<1> HIDE DEF e
<1>7. \A i, j \in DOMAIN e.ready[1] :
         e.ready[1][i] = e.ready[1][j] /\ e.ready[1][i] \in C => i = j
  BY <1>1, Sized DEF Exact
<1>8. Shape(e, r, C)  BY <1>1, <1>3, <1>4, <1>5, <1>7 DEF Shape
<1>9. Wakes(e, r) = 1  BY <1>5, <1>6 DEF Wakes, One
<1>10. Receiver \in Queued(e, r)
  <2>1. Receiver \in Queued(e, r) <=> Len(e.ready[r]) > 0  BY <1>8, ShapeQueues
  <2> QED  BY <1>6, <2>1
<1> QED  BY <1>1, <1>3, <1>4, <1>5, <1>8, <1>9, <1>10 DEF e

(* The client's executor with i callers spawned after its receiver. *)
Grown(y, i) ==
    /\ ExecutorType(y) /\ QueuesTyped(y) /\ IdsMatch(y) /\ Exact(y) /\ ~y.panic
    /\ y.delay = {} /\ y.ids = 0 .. i
    /\ y.ready[0] = Spawn(New, 0).ready[0]
    /\ y.tasks[0] = 0 /\ \A c \in 1 .. i : y.tasks[c] = 1

LEMMA GrownQueued ==
    ASSUME NEW i \in Nat, NEW y, Grown(y, i), NEW p \in Prios, NEW c \in Queued(y, p)
    PROVE  (c = 0 /\ p = 0) \/ (c \in 1 .. i /\ p = 1)
<1>1. c \in Live(y) /\ y.tasks[c] = p  BY QueuedAlive DEF Grown
<1>2. c \in 0 .. i  BY <1>1 DEF Grown, IdsMatch
<1>3. c = 0 \/ c \in 1 .. i  BY <1>2
<1> QED  BY <1>1, <1>3 DEF Grown

LEMMA GrownStep ==
    ASSUME NEW i \in 0 .. CoroutineNum - 1, NEW y, Grown(y, i)
    PROVE  Grown(Spawn(y, 1), i + 1)
<1> DEFINE e == Spawn(y, 1)
<1>0. /\ ExecutorType(y) /\ QueuesTyped(y) /\ IdsMatch(y) /\ Exact(y) /\ ~y.panic
      /\ y.ids = 0 .. i /\ 1 \in Prios /\ 0 \in Prios /\ i \in Nat /\ Live(y) = 0 .. i
      /\ i + 1 \in TaskIds /\ i < MaxTask - 1 /\ MaxTask \in Nat
  BY Sized, Constants DEF Grown, IdsMatch, TaskIds
<1>1. Len(y.ready[1]) < MaxTask - 1
  <2>1. Queued(y, 1) \subseteq 1 .. i  BY <1>0, GrownQueued
  <2>2. IsFiniteSet(1 .. i) /\ Cardinality(1 .. i) = i  BY <1>0, FS_Interval
  <2>3. Len(y.ready[1]) <= i  BY <1>0, <2>1, <2>2, QueueLength
  <2>4. Len(y.ready[1]) \in Nat  BY <1>0 DEF QueuesTyped
  <2> QED  BY <1>0, <2>3, <2>4
<1>2. Exact(e) /\ ~e.panic
  <2>1. Live(y) # TaskIds  BY <1>0
  <2> QED  BY <1>0, <1>1, <2>1, SpawnExact
<1>3. PICK c \in TaskIds : Spawned(y, e, 1, c)  BY <1>0, <1>2, SpawnFacts
<1>4. QueuesTyped(e) /\ IdsMatch(e)  BY <1>0, <1>3, SpawnedMatch
<1>5. c = i + 1
  <2>1. i + 1 \notin y.ids  BY <1>0
  <2>2. c <= i + 1 /\ c \notin 0 .. i  BY <1>0, <1>3, <2>1 DEF Spawned
  <2> QED  BY <1>0, <2>2 DEF TaskIds
<1>6. /\ ExecutorType(e) /\ e.delay = y.delay /\ e.ids = y.ids \cup {c}
      /\ e.tasks = [y.tasks EXCEPT ![c] = 1]
      /\ e.ready = [y.ready EXCEPT ![1] = Append(@, c)]
  BY <1>3 DEF Spawned
<1> HIDE DEF e
<1>7. e.ids = 0 .. i + 1  BY <1>0, <1>5, <1>6
<1>8. e.ready[0] = y.ready[0]  BY <1>0, <1>6 DEF ExecutorType
<1>9. e.tasks[0] = 0 /\ \A d \in 1 .. i + 1 : e.tasks[d] = 1
  <2>1. y.tasks \in [TaskIds -> Prios \cup {NoTask}]  BY <1>0 DEF ExecutorType
  <2>2. 0 .. i + 1 \subseteq TaskIds  BY <1>0, Constants DEF TaskIds
  <2> QED  BY <1>0, <1>5, <1>6, <2>1, <2>2 DEF Grown
<1> QED  BY <1>2, <1>4, <1>6, <1>7, <1>8, <1>9 DEF Grown, e

LEMMA ShapeSpawnCallers ==
    LET x == Spawn(New, 0)
        e == SpawnMany(x, CoroutineNum, 1)
    IN  /\ Shape(e, 0, Callers) /\ e.ready[0] = x.ready[0] /\ e.delay = {}
        /\ Receiver \in Live(e)
<1> DEFINE x == Spawn(New, 0)
           e == SpawnMany(x, CoroutineNum, 1)
<1>n. CoroutineNum \in Nat  BY Sized
<1> HIDE DEF x
<1>m. PICK g : SpawnTurns(g, x, CoroutineNum, 1)
  <2>1. \A n \in Nat : \E g : SpawnTurns(g, x, n, 1)  BY SpawnManyTurns
  <2> QED  BY <1>n, <2>1
<1>1. /\ g[0] = x
      /\ \A i \in 0 .. CoroutineNum - 1 : g[i + 1] = Spawn(g[i], 1)
      /\ e = g[CoroutineNum]
  BY <1>m DEF SpawnTurns
<1> DEFINE S == {i \in 0 .. CoroutineNum : Grown(g[i], i)}
<1>2. Grown(x, 0)
  <2>1. Kind(0, Callers)  BY DEF Kind
  <2>2. /\ Shape(x, 0, Callers) /\ Live(x) = {Receiver} /\ Exact(x) /\ x.delay = {}
        /\ x.tasks[Receiver] = 0
    BY <2>1, ShapeSpawnReceiver DEF x
  <2>3. x.ids = 0 .. 0  BY <2>2 DEF Shape, IdsMatch, Receiver
  <2> QED  BY <2>2, <2>3 DEF Grown, Shape, Receiver, x
<1> HIDE DEF e
<1>3. \A i \in 0 .. CoroutineNum : i \in S
  <2>1. 0 \in S  BY <1>1, <1>2, <1>n
  <2>2. \A i \in 0 .. CoroutineNum - 1 : i \in S => i + 1 \in S
    BY <1>1, <1>n, GrownStep
  <2> HIDE DEF S
  <2> QED  BY <2>1, <2>2, <1>n, UpTo
<1>4. Grown(e, CoroutineNum)  BY <1>1, <1>3, <1>n
<1>5. \A p \in Prios : \A c \in Queued(e, p) :
         (c = Receiver /\ p = 0) \/ (c \in Callers /\ p = 1)
  BY <1>4, <1>n, GrownQueued DEF Receiver, Callers
<1>6. Live(e) = 0 .. CoroutineNum  BY <1>4 DEF Grown, IdsMatch
<1>7. \A c \in Live(e) : (c = Receiver /\ e.tasks[c] = 0) \/ (c \in Callers /\ e.tasks[c] = 1)
  <2>1. \A c \in Live(e) : c = 0 \/ c \in 1 .. CoroutineNum  BY <1>6, <1>n
  <2> QED  BY <1>4, <2>1 DEF Grown, Receiver, Callers
<1>8. \A i, j \in DOMAIN e.ready[1] :
         e.ready[1][i] = e.ready[1][j] /\ e.ready[1][i] \in Callers => i = j
  BY <1>4, Sized DEF Grown, Exact
<1>9. Shape(e, 0, Callers)  BY <1>4, <1>5, <1>7, <1>8 DEF Shape, Grown
<1> QED  BY <1>4, <1>6, <1>9, <1>n DEF Grown, Receiver, e, x

-----------------------------------------------------------------------------
(* Counting in a ring. *)

LEMMA OccurrencesFinite ==
    ASSUME NEW S, NEW s \in Seq(S), NEW c
    PROVE  /\ IsFiniteSet({k \in DOMAIN s : s[k] = c})
           /\ Occurrences(s, c) \in Nat
<1>1. IsFiniteSet(1 .. Len(s)) /\ DOMAIN s = 1 .. Len(s)  BY LenProperties, FS_Interval
<1>2. IsFiniteSet({k \in DOMAIN s : s[k] = c})  BY <1>1, FS_Subset
<1> QED  BY <1>2, FS_CardinalityType DEF Occurrences

LEMMA OccurrencesEmpty ==
    ASSUME NEW c
    PROVE  Occurrences(<<>>, c) = 0
<1>1. {k \in DOMAIN <<>> : <<>>[k] = c} = {}  OBVIOUS
<1> QED  BY <1>1, FS_EmptySet DEF Occurrences

LEMMA OccurrencesAppend ==
    ASSUME NEW S, NEW s \in Seq(S), NEW d \in S, NEW c
    PROVE  Occurrences(Append(s, d), c) = Occurrences(s, c) + (IF c = d THEN 1 ELSE 0)
<1> DEFINE t == Append(s, d)
           A == {k \in DOMAIN s : s[k] = c}
           B == {k \in DOMAIN t : t[k] = c}
<1>1. /\ Len(s) \in Nat /\ DOMAIN s = 1 .. Len(s) /\ DOMAIN t = 1 .. Len(s) + 1
      /\ \A k \in 1 .. Len(s) : t[k] = s[k]
      /\ t[Len(s) + 1] = d
  BY AppendFacts
<1>2. IsFiniteSet(A) /\ Cardinality(A) \in Nat  BY OccurrencesFinite DEF Occurrences
<1> HIDE DEF t
<1>3. CASE c = d
  <2>1. B = A \cup {Len(s) + 1} /\ Len(s) + 1 \notin A  BY <1>1, <1>3
  <2> HIDE DEF A, B
  <2>2. Cardinality(B) = Cardinality(A) + 1  BY <1>2, <2>1, FS_AddElement
  <2> QED  BY <1>3, <2>2 DEF Occurrences, A, B, t
<1>4. CASE c # d
  <2>1. B = A  BY <1>1, <1>4
  <2> HIDE DEF A, B
  <2>2. Cardinality(B) = Cardinality(A) + 0  BY <1>2, <2>1
  <2> QED  BY <1>4, <2>2 DEF Occurrences, A, B, t
<1> QED  BY <1>3, <1>4

LEMMA OccurrencesTail ==
    ASSUME NEW S, NEW s \in Seq(S), s # <<>>, NEW c
    PROVE  Occurrences(s, c) = Occurrences(Tail(s), c) + (IF c = Head(s) THEN 1 ELSE 0)
<1> DEFINE t == Tail(s)
           A == {k \in DOMAIN s : s[k] = c}
           B == {k \in DOMAIN t : t[k] = c}
           D == A \ {1}
           f == [k \in B |-> k + 1]
<1>1. /\ Head(s) = s[1] /\ Len(s) \in Nat \ {0} /\ DOMAIN s = 1 .. Len(s)
      /\ DOMAIN t = 1 .. Len(s) - 1 /\ \A k \in 1 .. Len(s) - 1 : t[k] = s[k + 1]
      /\ t \in Seq(S)
  BY TailFacts
<1>2. IsFiniteSet(A) /\ Cardinality(A) \in Nat  BY OccurrencesFinite DEF Occurrences
<1>3. IsFiniteSet(B) /\ Cardinality(B) \in Nat  BY <1>1, OccurrencesFinite DEF Occurrences
<1> HIDE DEF t
<1>4. f \in Bijection(B, D)
  <2>1. \A k \in B : k + 1 \in D  BY <1>1
  <2>2. \A k \in D : k - 1 \in B /\ f[k - 1] = k  BY <1>1
  <2>3. B \subseteq Nat  BY <1>1
  <2> HIDE DEF B, D
  <2>4. f \in Injection(B, D)  BY <2>1, <2>3 DEF Injection, IsInjective
  <2>5. f \in Surjection(B, D)  BY <2>1, <2>2 DEF Surjection
  <2> QED  BY <2>4, <2>5 DEF Bijection
<1> HIDE DEF f
<1>5. Cardinality(B) = Cardinality(D)
  <2> HIDE DEF B, D
  <2>1. ExistsBijection(B, D)  BY <1>4 DEF ExistsBijection
  <2> QED  BY <1>3, <2>1, FS_Bijection
<1>6. CASE c = Head(s)
  <2>1. 1 \in A  BY <1>1, <1>6
  <2> HIDE DEF A, B
  <2>2. Cardinality(A \ {1}) = Cardinality(A) - 1  BY <1>2, <2>1, FS_RemoveElement
  <2>3. Cardinality(A) = Cardinality(B) + 1  BY <1>2, <1>5, <2>2 DEF D
  <2> QED  BY <1>6, <2>3 DEF Occurrences, A, B, t
<1>7. CASE c # Head(s)
  <2>1. D = A  BY <1>1, <1>7
  <2> HIDE DEF A, B, D
  <2>2. Cardinality(A) = Cardinality(B) + 0  BY <1>3, <1>5, <2>1
  <2> QED  BY <1>7, <2>2 DEF Occurrences, A, B, t
<1> QED  BY <1>6, <1>7

(* An item that does not occur leaves room for itself. *)
LEMMA RoomFor ==
    ASSUME NEW s \in Seq(Callers), NEW c \in Callers, Occurrences(s, c) = 0,
           \A d \in Callers : Occurrences(s, d) <= 1
    PROVE  Len(s) < CoroutineNum
<1>1. Len(s) \in Nat /\ DOMAIN s = 1 .. Len(s) /\ s \in [1 .. Len(s) -> Callers]
  BY LenProperties
<1>2. ASSUME NEW i \in DOMAIN s, NEW j \in DOMAIN s, s[i] = s[j]  PROVE i = j
  <2> DEFINE d == s[i]
             A == {k \in DOMAIN s : s[k] = d}
  <2>1. d \in Callers /\ IsFiniteSet(A) /\ Cardinality(A) <= 1 /\ Cardinality(A) \in Nat
    BY <1>1, OccurrencesFinite DEF Occurrences
  <2>2. i \in A /\ j \in A  BY <1>2
  <2> HIDE DEF A
  <2>3. IsFiniteSet(A \ {i}) /\ Cardinality(A \ {i}) = Cardinality(A) - 1
        /\ Cardinality(A \ {i}) \in Nat
    BY <2>1, <2>2, FS_RemoveElement, FS_CardinalityType
  <2>4. Cardinality(A \ {i}) = 0  BY <2>1, <2>3
  <2>5. A \ {i} = {}  BY <2>3, <2>4, FS_EmptySet
  <2> QED  BY <2>2, <2>5
<1>3. ASSUME NEW k \in 1 .. Len(s)  PROVE s[k] # c
  <2>1. SUFFICES ASSUME s[k] = c  PROVE FALSE  OBVIOUS
  <2> DEFINE A == {i \in DOMAIN s : s[i] = c}
  <2>2. IsFiniteSet(A) /\ Cardinality(A) = 0  BY OccurrencesFinite DEF Occurrences
  <2>3. k \in A  BY <1>1, <2>1
  <2> HIDE DEF A
  <2>4. A = {}  BY <2>2, FS_EmptySet
  <2> QED  BY <2>3, <2>4
<1>4. s \in Seq(Callers \ {c})
  <2>1. s = [k \in 1 .. Len(s) |-> s[k]]  BY <1>1
  <2>2. \A k \in 1 .. Len(s) : s[k] \in Callers \ {c}  BY <1>1, <1>3
  <2> QED  BY <1>1, <2>1, <2>2, IsASeq
<1>5. IsFiniteSet(Callers \ {c}) /\ Cardinality(Callers \ {c}) = CoroutineNum - 1
  BY Sized, FS_RemoveElement
<1>6. Len(s) <= Cardinality(Callers \ {c})  BY <1>2, <1>4, <1>5, DistinctLength
<1> QED  BY <1>1, <1>5, <1>6, Sized

-----------------------------------------------------------------------------
(* The invariant. *)

ServerSetup == {"register", "set_args", "create", "set_child", "wait_reply", "set_ready"}
ClientSetup == {"none", "wait_args", "register", "set_reply", "wait_ready", "spawn"}
Serving == {"req_pop", "rep_push", "rep_test", "rep_store", "rep_uipi", "req_count",
            "req_idle"}
Receiving == {"reply_pop", "reply_idle"}
Calling == {"call", "call_test", "call_store", "call_uipi"}
Looping == {"main", "fetch", "yield", "passed"}

(* How far the threads are: neither uses what the other has not set up,    *)
(* and before the callers are spawned nothing has been sent.               *)
SetupInv ==
    /\ pc[Server] \in ServerSetup \cup Serving \cup Looping
    /\ pc[Client] \in ClientSetup \cup Receiving \cup Calling \cup Looping
    /\ pc[Client] = "none" <=> pc[Server] \in {"register", "set_args", "create"}
    /\ Server \in registered <=> pc[Server] # "register"
    /\ Client \in registered <=> pc[Client] \notin {"none", "wait_args", "register"}
    /\ Server \notin registered => ex[Server] = New
    /\ Client \notin registered => ex[Client] = New
    /\ pc[Client] \in {"set_reply", "wait_ready", "spawn"} => ex[Client] = Spawn(New, 0)
    /\ pc[Client] = "register" => Needed \subseteq args
    /\ "server_ready" \in args <=> pc[Server] \notin ServerSetup
    /\ "server_ready" \in args => "server_sender_id" \in args
    /\ pc[Client] \notin ClientSetup \/ pc[Client] = "spawn" => "server_ready" \in args
    /\ pc[Client] \in ClientSetup =>
          /\ mute_send_num = SendNum
          /\ ~uipi[Server] /\ ~uipi[Client]
          /\ awaiting = {}

(* Who runs, and until when the receivers live. *)
RunInv ==
    /\ Shape(ex[Server], 1, {})
    /\ Shape(ex[Client], 0, Callers)
    /\ Server \in registered => (Receiver \in Live(ex[Server]) <=> req_num < SendNum)
    /\ Client \in registered => (Receiver \in Live(ex[Client]) <=> reply_count < SendNum)
    /\ pc[Server] \in Serving => ex[Server].current = Receiver /\ Receiver \in Live(ex[Server])
    /\ pc[Client] \in Receiving => ex[Client].current = Receiver /\ Receiver \in Live(ex[Client])
    /\ pc[Client] \in Calling =>
          /\ ex[Client].current \in Callers
          /\ ex[Client].current \in Live(ex[Client])
          /\ ex[Client].current \notin Queued(ex[Client], 1)

(* Requests sent and requests taken, replies sent and replies taken. *)
CountInv ==
    /\ SendNum - mute_send_num = Len(req_items) + req_num
          + One(pc[Server] \in {"rep_push", "rep_test", "rep_store", "rep_uipi", "req_count"})
    /\ reply_count + Len(res_items) = req_num
          + One(pc[Server] \in {"rep_test", "rep_store", "rep_uipi", "req_count"})
    /\ item # NoItem <=> pc[Server] = "rep_push"

(* A flag that is clear allows its receiver one pending run, one that is   *)
(* set two: that bounds the wakes a ready ring must hold.                  *)
WakesInv ==
    /\ Wakes(ex[Server], 1) + One(uipi[Server]) + One(pc[Client] = "call_uipi")
          + One(pc[Server] \in Serving) <= 1 + One(recv_req_status)
    /\ Wakes(ex[Client], 0) + One(uipi[Client]) + One(pc[Server] = "rep_uipi")
          + One(pc[Client] \in Receiving) <= 1 + One(recv_reply_status)
    /\ pc[Client] = "call_store" => ~recv_req_status
    /\ pc[Server] = "rep_store" => ~recv_reply_status
    /\ pc[Client] \in {"none", "wait_args", "register"} => ~recv_reply_status

(* A caller that resumes, or is about to, has its value. *)
ValueInv ==
    \A c \in awaiting :
        c \in Queued(ex[Client], 1) \/ (pc[Client] = "call" /\ c = ex[Client].current)
            => immediate[c] = c

(* Without preemption a thread that is off the core is at a point where it *)
(* gave it up, and one that clears its flag has found its ring empty.      *)
Parked == {"none", "wait_args", "wait_reply", "wait_ready", "main", "passed"}

CoreInv ==
    ~preemptive =>
        /\ pc[Other(cur)] \in Parked
        /\ pc[Server] = "req_idle" => req_items = <<>>
        /\ pc[Client] = "reply_idle" => res_items = <<>>

IInv == /\ ex = [t \in Threads |-> ex[t]]
        /\ TypeOK /\ SetupInv /\ RunInv /\ CountInv /\ WakesInv
        /\ OneTokenPerCall /\ ValueInv /\ CoreInv /\ StatusMeansWake /\ NoStrandedItem

-----------------------------------------------------------------------------
(* Steps that leave the executors, the rings and the flags alone. *)

LEMMA ClientGoes ==
    ASSUME TypeOK, NEW l \in Labels, Goto(Client, l)
    PROVE  pc' \in [Threads -> Labels] /\ pc'[Client] = l /\ pc'[Server] = pc[Server]
BY DEF TypeOK, Goto, Threads, Client, Server

LEMMA ServerGoes ==
    ASSUME TypeOK, NEW l \in Labels, Goto(Server, l)
    PROVE  pc' \in [Threads -> Labels] /\ pc'[Server] = l /\ pc'[Client] = pc[Client]
BY DEF TypeOK, Goto, Threads, Client, Server

LEMMA ClientRuns ==
    ASSUME ex = [t \in Threads |-> ex[t]], NEW e, ex' = [ex EXCEPT ![Client] = e]
    PROVE  ex'[Client] = e /\ ex'[Server] = ex[Server] /\ ex' = [t \in Threads |-> ex'[t]]
BY DEF Threads, Client, Server

LEMMA ServerRuns ==
    ASSUME ex = [t \in Threads |-> ex[t]], NEW e, ex' = [ex EXCEPT ![Server] = e]
    PROVE  ex'[Server] = e /\ ex'[Client] = ex[Client] /\ ex' = [t \in Threads |-> ex'[t]]
BY DEF Threads, Client, Server

(* Where a thread neither calls nor receives. *)
Neutral == ServerSetup \cup ClientSetup \cup Looping

LEMMA Quiet ==
    ASSUME IInv, UNCHANGED <<ex, registered, preemptive, rest>>,
           pc' \in [Threads -> Labels], cur' \in Threads, lock' \in Threads \cup {NoThread},
           \A t \in Threads : pc'[t] = pc[t] \/ (pc[t] \in Neutral /\ pc'[t] \in Neutral),
           pc'[Client] \in {"none", "wait_args", "register"}
                => pc[Client] \in {"none", "wait_args", "register"},
           SetupInv',
           ~preemptive => pc'[Other(cur')] \in Parked
    PROVE  IInv'
<1>0. UNCHANGED <<ex, registered, preemptive, shared, uipi, clientvars, servervars>>  BY DEF rest
<1>1. TypeOK'  BY <1>0 DEF IInv, TypeOK, shared, clientvars, servervars
<1>2. RunInv'
  BY <1>0 DEF IInv, RunInv, Threads, Neutral, ServerSetup, ClientSetup, Looping, Serving,
              Receiving, Calling, clientvars, servervars
<1>3. CountInv'
  BY <1>0 DEF IInv, CountInv, Threads, Neutral, ServerSetup, ClientSetup, Looping,
              shared, clientvars, servervars
<1>4. WakesInv'
  BY <1>0 DEF IInv, WakesInv, Threads, Neutral, ServerSetup, ClientSetup, Looping, Serving,
              Receiving, shared
<1>5. OneTokenPerCall'
  BY <1>0, <1>1 DEF IInv, OneTokenPerCall, Outstanding, Threads, Neutral, ServerSetup,
              ClientSetup, Looping, shared, clientvars, servervars
<1>6. ValueInv'
  BY <1>0 DEF IInv, ValueInv, Threads, Neutral, ServerSetup, ClientSetup, Looping, clientvars
<1>7. CoreInv'
  BY <1>0 DEF IInv, CoreInv, Threads, Neutral, ServerSetup, ClientSetup, Looping, shared
<1>8. StatusMeansWake'
  BY <1>0 DEF IInv, StatusMeansWake, ServerWakes, ClientWakes, Threads, Neutral, ServerSetup,
              ClientSetup, Looping, shared, clientvars, servervars
<1>9. NoStrandedItem'
  BY <1>0 DEF IInv, NoStrandedItem, ServerWakes, ClientWakes, Threads, Neutral, ServerSetup,
              ClientSetup, Looping, shared
<1> QED  BY <1>0, <1>1, <1>2, <1>3, <1>4, <1>5, <1>6, <1>7, <1>8, <1>9 DEF IInv

-----------------------------------------------------------------------------
(* The start, and the setup of the two threads. *)

LEMMA Initial == Init => IInv
<1> SUFFICES ASSUME Init PROVE IInv  OBVIOUS
<1>0. /\ ex[Server] = New /\ ex[Client] = New /\ pc[Server] = "register" /\ pc[Client] = "none"
      /\ ex = [t \in Threads |-> ex[t]] /\ pc \in [Threads -> Labels]
      /\ uipi \in [Threads -> BOOLEAN] /\ ~uipi[Server] /\ ~uipi[Client]
  BY DEF Init, Threads, Client, Server, Labels
<1>1. /\ Shape(New, 1, {}) /\ Wakes(New, 1) = 0
      /\ Shape(New, 0, Callers) /\ Wakes(New, 0) = 0
  BY ShapeNew DEF Kind
<1>2. TypeOK
  <2>1. \A t \in Threads : ExecutorType(ex[t])  BY <1>0, NewFacts DEF Threads
  <2>2. immediate \in [TaskIds -> Callers \cup {NoItem}]  BY DEF Init
  <2>3. /\ req_items \in Seq(Callers) /\ Len(req_items) <= RingSize
        /\ res_items \in Seq(Callers) /\ Len(res_items) <= RingSize
    BY Sized DEF Init
  <2>4. preemptive \in BOOLEAN  BY IpcAssumption DEF Init
  <2>5. mute_send_num \in 0 .. SendNum /\ reply_count \in 0 .. SendNum /\ req_num \in 0 .. SendNum
    BY Sized DEF Init
  <2>6. recv_req_status \in BOOLEAN /\ recv_reply_status \in BOOLEAN  BY DEF Init
  <2>7. /\ lock \in Threads \cup {NoThread} /\ cur \in Threads
        /\ awaiting \subseteq Callers /\ item \in Callers \cup {NoItem}
    BY DEF Init, Threads
  <2> QED  BY <1>0, <2>1, <2>2, <2>3, <2>4, <2>5, <2>6, <2>7 DEF TypeOK
<1>3. SetupInv
  BY <1>0 DEF Init, SetupInv, ServerSetup, ClientSetup
<1>4. RunInv
  BY <1>0, <1>1 DEF Init, RunInv, Serving, Receiving, Calling
<1>5. CountInv
  <2>1. One(pc[Server] \in {"rep_push", "rep_test", "rep_store", "rep_uipi", "req_count"}) = 0
        /\ One(pc[Server] \in {"rep_test", "rep_store", "rep_uipi", "req_count"}) = 0
    BY <1>0 DEF One
  <2>2. Len(req_items) = 0 /\ Len(res_items) = 0  BY DEF Init
  <2> QED  BY <1>0, <2>1, <2>2, Sized DEF Init, CountInv
<1>6. WakesInv
  <2>1. One(uipi[Server]) = 0 /\ One(pc[Client] = "call_uipi") = 0
        /\ One(pc[Server] \in Serving) = 0 /\ One(recv_req_status) = 0
    BY <1>0 DEF One, Serving, Init
  <2>2. One(uipi[Client]) = 0 /\ One(pc[Server] = "rep_uipi") = 0
        /\ One(pc[Client] \in Receiving) = 0 /\ One(recv_reply_status) = 0
    BY <1>0 DEF One, Receiving, Init
  <2>3. ~recv_req_status /\ ~recv_reply_status  BY DEF Init
  <2> QED  BY <1>0, <1>1, <2>1, <2>2, <2>3 DEF WakesInv
<1>7. OneTokenPerCall
  <2>1. \A c \in Callers : Occurrences(req_items, c) = 0 /\ Occurrences(res_items, c) = 0
    BY OccurrencesEmpty DEF Init
  <2>2. \A c \in Callers : ~Outstanding(c) /\ item # c /\ immediate[c] # c
    BY <1>0, Sized DEF Init, Outstanding
  <2> QED  BY <1>2, <2>1, <2>2 DEF OneTokenPerCall
<1>8. ValueInv  BY DEF Init, ValueInv
<1>9. CoreInv  BY <1>0 DEF Init, CoreInv, Other, Parked, Client, Server
<1>10. StatusMeansWake /\ NoStrandedItem  BY DEF Init, StatusMeansWake, NoStrandedItem
<1> QED  BY <1>0, <1>2, <1>3, <1>4, <1>5, <1>6, <1>7, <1>8, <1>9, <1>10 DEF IInv

(* Before the first call nothing has been sent and nobody has a reply. *)
LEMMA NothingSent ==
    ASSUME IInv, pc[Client] \in ClientSetup
    PROVE  /\ req_num = 0 /\ reply_count = 0
           /\ pc[Server] \notin {"rep_push", "rep_test", "rep_store", "rep_uipi", "req_count"}
<1> DEFINE a == One(pc[Server] \in {"rep_push", "rep_test", "rep_store", "rep_uipi", "req_count"})
           b == One(pc[Server] \in {"rep_test", "rep_store", "rep_uipi", "req_count"})
<1>1. /\ Len(req_items) \in Nat /\ Len(res_items) \in Nat
      /\ req_num \in Nat /\ reply_count \in Nat /\ SendNum \in Nat
  <2>1. Len(req_items) \in Nat /\ Len(res_items) \in Nat  BY LenProperties DEF IInv, TypeOK
  <2> QED  BY <2>1, Sized DEF IInv, TypeOK
<1>2. a \in Nat /\ b \in Nat  BY DEF One
<1>3. mute_send_num = SendNum  BY DEF IInv, SetupInv
<1>4. SendNum - mute_send_num = Len(req_items) + req_num + a
  BY DEF IInv, CountInv
<1>5. reply_count + Len(res_items) = req_num + b  BY DEF IInv, CountInv
<1> HIDE DEF a, b
<1>6. a = 0 /\ req_num = 0  BY <1>1, <1>2, <1>3, <1>4
<1>7. pc[Server] \notin {"rep_push", "rep_test", "rep_store", "rep_uipi", "req_count"}
  BY <1>6 DEF a, One
<1>8. b = 0  BY <1>7 DEF b, One
<1>9. reply_count = 0  BY <1>1, <1>5, <1>6, <1>8
<1> QED  BY <1>6, <1>7, <1>9

(* lock.lock(). *)
LEMMA LockStep ==
    ASSUME IInv, NEW t \in Threads, LockArgs(t), UNCHANGED preemptive
    PROVE  IInv'
<1>1. /\ UNCHANGED <<ex, registered, preemptive, rest>> /\ pc' = pc /\ cur' = cur
      /\ args' = args /\ lock' \in Threads
  BY DEF LockArgs
<1>2. /\ pc \in [Threads -> Labels] /\ cur \in Threads
      /\ ~preemptive => pc[Other(cur)] \in Parked
  BY DEF IInv, TypeOK, CoreInv
<1>3. SetupInv'  BY <1>1 DEF IInv, SetupInv, rest, shared, clientvars, servervars
<1> QED  BY <1>1, <1>2, <1>3, Quiet DEF Other

(* What lock holders set, in the order of the two threads' code. *)
LEMMA SetArgsStep ==
    ASSUME IInv, UNCHANGED preemptive,
           \/ SetArgs(Server, "set_args", {"req_ntfn", "ipc_new_buffer"}, "create")
           \/ SetArgs(Server, "set_child", {"child_tcb"}, "wait_reply")
           \/ SetArgs(Server, "set_ready", {"server_sender_id", "server_ready"}, "main")
           \/ SetArgs(Client, "set_reply", {"client_sender_id", "reply_ntfn"}, "wait_ready")
    PROVE  IInv'
<1>0. /\ TypeOK /\ SetupInv /\ pc \in [Threads -> Labels] /\ cur \in Threads /\ Client # Server
      /\ ~preemptive => pc[Other(cur)] \in Parked
  BY DEF IInv, TypeOK, CoreInv, Client, Server
<1>1. CASE SetArgs(Server, "set_args", {"req_ntfn", "ipc_new_buffer"}, "create")
  <2>1. /\ UNCHANGED <<ex, registered, preemptive, rest>> /\ cur' = cur /\ cur = Server
        /\ lock' = NoThread /\ args' = args \cup {"req_ntfn", "ipc_new_buffer"}
        /\ pc[Server] = "set_args" /\ Goto(Server, "create")
    BY <1>1 DEF SetArgs, At
  <2>2. pc' \in [Threads -> Labels] /\ pc'[Server] = "create" /\ pc'[Client] = pc[Client]
    BY <1>0, <2>1, ServerGoes DEF Labels
  <2>3. SetupInv'
    BY <1>0, <2>1, <2>2 DEF SetupInv, ServerSetup, Serving, Looping, rest, shared, clientvars,
                            servervars
  <2> QED  BY <1>0, <2>1, <2>2, <2>3, Quiet
                DEF Other, Threads, Neutral, ServerSetup
<1>2. CASE SetArgs(Server, "set_child", {"child_tcb"}, "wait_reply")
  <2>1. /\ UNCHANGED <<ex, registered, preemptive, rest>> /\ cur' = cur /\ cur = Server
        /\ lock' = NoThread /\ args' = args \cup {"child_tcb"}
        /\ pc[Server] = "set_child" /\ Goto(Server, "wait_reply")
    BY <1>2 DEF SetArgs, At
  <2>2. pc' \in [Threads -> Labels] /\ pc'[Server] = "wait_reply" /\ pc'[Client] = pc[Client]
    BY <1>0, <2>1, ServerGoes DEF Labels
  <2>3. SetupInv'
    BY <1>0, <2>1, <2>2 DEF SetupInv, ServerSetup, Serving, Looping, rest, shared, clientvars,
                            servervars
  <2> QED  BY <1>0, <2>1, <2>2, <2>3, Quiet
                DEF Other, Threads, Neutral, ServerSetup
<1>3. CASE SetArgs(Server, "set_ready", {"server_sender_id", "server_ready"}, "main")
  <2>1. /\ UNCHANGED <<ex, registered, preemptive, rest>> /\ cur' = cur /\ cur = Server
        /\ lock' = NoThread /\ args' = args \cup {"server_sender_id", "server_ready"}
        /\ pc[Server] = "set_ready" /\ Goto(Server, "main")
    BY <1>3 DEF SetArgs, At
  <2>2. pc' \in [Threads -> Labels] /\ pc'[Server] = "main" /\ pc'[Client] = pc[Client]
    BY <1>0, <2>1, ServerGoes DEF Labels
  <2>3. SetupInv'
    BY <1>0, <2>1, <2>2 DEF SetupInv, ServerSetup, Serving, Looping, rest, shared, clientvars,
                            servervars
  <2> QED  BY <1>0, <2>1, <2>2, <2>3, Quiet
                DEF Other, Threads, Neutral, ServerSetup, Looping
<1>4. CASE SetArgs(Client, "set_reply", {"client_sender_id", "reply_ntfn"}, "wait_ready")
  <2>1. /\ UNCHANGED <<ex, registered, preemptive, rest>> /\ cur' = cur /\ cur = Client
        /\ lock' = NoThread /\ args' = args \cup {"client_sender_id", "reply_ntfn"}
        /\ pc[Client] = "set_reply" /\ Goto(Client, "wait_ready")
    BY <1>4 DEF SetArgs, At
  <2>2. pc' \in [Threads -> Labels] /\ pc'[Client] = "wait_ready" /\ pc'[Server] = pc[Server]
    BY <1>0, <2>1, ClientGoes DEF Labels
  <2>3. SetupInv'
    BY <1>0, <2>1, <2>2 DEF SetupInv, ClientSetup, Receiving, Calling, Looping, rest, shared,
                            clientvars, servervars
  <2> QED  BY <1>0, <2>1, <2>2, <2>3, Quiet
                DEF Other, Threads, Neutral, ClientSetup
<1> QED  BY <1>1, <1>2, <1>3, <1>4

(* What the threads wait for. *)
LEMMA WaitArgsStep ==
    ASSUME IInv, UNCHANGED preemptive,
           \/ WaitArgs(Server, "wait_reply", {"reply_ntfn"}, "set_ready")
           \/ WaitArgs(Client, "wait_args", Needed, "register")
           \/ WaitArgs(Client, "wait_ready", {"server_ready"}, "spawn")
    PROVE  IInv'
<1>0. /\ TypeOK /\ SetupInv /\ pc \in [Threads -> Labels] /\ cur \in Threads /\ Client # Server
      /\ ~preemptive => pc[Other(cur)] \in Parked
  BY DEF IInv, TypeOK, CoreInv, Client, Server
<1>1. ASSUME NEW t \in Threads, NEW fields, NEW label \in Neutral, NEW next \in Neutral,
             WaitArgs(t, label, fields, next), ~(fields \subseteq args), label \in Parked
      PROVE  IInv'
  <2>1. /\ UNCHANGED <<ex, registered, preemptive, rest>> /\ cur' = Switch(t) /\ pc' = pc
        /\ lock' = NoThread /\ args' = args /\ cur = t /\ pc[t] = label
    BY <1>1 DEF WaitArgs, At
  <2>2. SetupInv'  BY <1>0, <2>1 DEF SetupInv, rest, shared, clientvars, servervars
  <2>3. cur' \in Threads /\ (~preemptive => pc[Other(cur')] \in Parked)
    BY <1>0, <1>1, <2>1 DEF Switch, Other, Threads
  <2> QED  BY <1>0, <2>1, <2>2, <2>3, Quiet
<1>2. CASE WaitArgs(Server, "wait_reply", {"reply_ntfn"}, "set_ready")
  <2>1. CASE ~({"reply_ntfn"} \subseteq args)
    BY <1>1, <1>2, <2>1 DEF Neutral, ServerSetup, Parked, Threads
  <2>2. CASE {"reply_ntfn"} \subseteq args
    <3>1. /\ UNCHANGED <<ex, registered, preemptive, rest>> /\ cur' = cur /\ cur = Server
          /\ lock' = NoThread /\ args' = args
          /\ pc[Server] = "wait_reply" /\ Goto(Server, "set_ready")
      BY <1>2, <2>2 DEF WaitArgs, At
    <3>2. pc' \in [Threads -> Labels] /\ pc'[Server] = "set_ready" /\ pc'[Client] = pc[Client]
      BY <1>0, <3>1, ServerGoes DEF Labels
    <3>3. SetupInv'
      BY <1>0, <3>1, <3>2 DEF SetupInv, ServerSetup, Serving, Looping, rest, shared, clientvars,
                              servervars
    <3> QED  BY <1>0, <3>1, <3>2, <3>3, Quiet DEF Other, Threads, Neutral, ServerSetup
  <2> QED  BY <2>1, <2>2
<1>3. CASE WaitArgs(Client, "wait_args", Needed, "register")
  <2>1. CASE ~(Needed \subseteq args)
    BY <1>1, <1>3, <2>1 DEF Neutral, ClientSetup, Parked, Threads
  <2>2. CASE Needed \subseteq args
    <3>1. /\ UNCHANGED <<ex, registered, preemptive, rest>> /\ cur' = cur /\ cur = Client
          /\ lock' = NoThread /\ args' = args
          /\ pc[Client] = "wait_args" /\ Goto(Client, "register")
      BY <1>3, <2>2 DEF WaitArgs, At
    <3>2. pc' \in [Threads -> Labels] /\ pc'[Client] = "register" /\ pc'[Server] = pc[Server]
      BY <1>0, <3>1, ClientGoes DEF Labels
    <3>3. SetupInv'
      BY <1>0, <2>2, <3>1, <3>2 DEF SetupInv, ClientSetup, Receiving, Calling, Looping, rest,
                                    shared, clientvars, servervars
    <3> QED  BY <1>0, <3>1, <3>2, <3>3, Quiet DEF Other, Threads, Neutral, ClientSetup
  <2> QED  BY <2>1, <2>2
<1>4. CASE WaitArgs(Client, "wait_ready", {"server_ready"}, "spawn")
  <2>1. CASE ~({"server_ready"} \subseteq args)
    BY <1>1, <1>4, <2>1 DEF Neutral, ClientSetup, Parked, Threads
  <2>2. CASE {"server_ready"} \subseteq args
    <3>1. /\ UNCHANGED <<ex, registered, preemptive, rest>> /\ cur' = cur /\ cur = Client
          /\ lock' = NoThread /\ args' = args
          /\ pc[Client] = "wait_ready" /\ Goto(Client, "spawn")
      BY <1>4, <2>2 DEF WaitArgs, At
    <3>2. pc' \in [Threads -> Labels] /\ pc'[Client] = "spawn" /\ pc'[Server] = pc[Server]
      BY <1>0, <3>1, ClientGoes DEF Labels
    <3>3. SetupInv'
      BY <1>0, <2>2, <3>1, <3>2 DEF SetupInv, ClientSetup, Receiving, Calling, Looping, rest,
                                    shared, clientvars, servervars
    <3> QED  BY <1>0, <3>1, <3>2, <3>3, Quiet DEF Other, Threads, Neutral, ClientSetup
  <2> QED  BY <2>1, <2>2
<1> QED  BY <1>2, <1>3, <1>4

(* The client is resumed before its tcb is in AsyncArgs. *)
LEMMA CreateStep ==
    ASSUME IInv, CreateClient, UNCHANGED preemptive
    PROVE  IInv'
<1>0. /\ TypeOK /\ SetupInv /\ pc \in [Threads -> Labels] /\ Client # Server
  BY DEF IInv, TypeOK, Client, Server
<1>1. /\ UNCHANGED <<ex, registered, preemptive, rest>> /\ args' = args /\ lock' = lock
      /\ cur' = cur /\ cur = Server /\ pc[Server] = "create"
      /\ pc' = [pc EXCEPT ![Server] = "set_child", ![Client] = "wait_args"]
  BY DEF CreateClient, At, setup
<1>2. pc' \in [Threads -> Labels] /\ pc'[Server] = "set_child" /\ pc'[Client] = "wait_args"
  BY <1>0, <1>1 DEF Threads, Labels
<1>3. pc[Client] = "none"  BY <1>0, <1>1 DEF SetupInv
<1>4. SetupInv'
  BY <1>0, <1>1, <1>2, <1>3 DEF SetupInv, ServerSetup, ClientSetup, rest, shared, clientvars,
                                servervars
<1>5. lock \in Threads \cup {NoThread} /\ Server \in Threads  BY <1>0 DEF TypeOK, Threads
<1> QED  BY <1>0, <1>1, <1>2, <1>3, <1>4, <1>5, Quiet
              DEF Other, Threads, Neutral, ServerSetup, ClientSetup, Parked

(* The run loop, r#yield() and the end of a time slice. *)
LEMMA MainStep ==
    ASSUME IInv, NEW t \in Threads, MainLoop(t), UNCHANGED <<setup, preemptive>>
    PROVE  IInv'
<1>0. /\ TypeOK /\ SetupInv /\ pc \in [Threads -> Labels] /\ cur \in Threads /\ Client # Server
      /\ lock \in Threads \cup {NoThread}
      /\ ~preemptive => pc[Other(cur)] \in Parked
  BY DEF IInv, TypeOK, CoreInv, Client, Server
<1>1. /\ UNCHANGED <<ex, registered, preemptive, rest>> /\ args' = args /\ lock' = lock
      /\ cur = t /\ pc[t] = "main"
      /\ \/ Goto(t, "passed") /\ cur' = Other(t)
         \/ Goto(t, "fetch") /\ cur' = cur
  BY DEF MainLoop, At, setup, rest
<1>2. /\ pc' \in [Threads -> Labels] /\ \A u \in Threads \ {t} : pc'[u] = pc[u]
      /\ pc'[t] \in {"passed", "fetch"}
      /\ pc'[t] = "passed" => cur' = Other(t)
      /\ pc'[t] = "fetch" => cur' = cur
  BY <1>0, <1>1 DEF Goto, Labels
<1>3. SetupInv'
  BY <1>0, <1>1, <1>2 DEF SetupInv, ServerSetup, ClientSetup, Serving, Receiving, Calling,
        Looping, Threads, rest, shared, clientvars, servervars
<1>4. cur' \in Threads /\ (~preemptive => pc'[Other(cur')] \in Parked)
  BY <1>0, <1>1, <1>2 DEF Threads, Other, Parked
<1> QED  BY <1>0, <1>1, <1>2, <1>3, <1>4, Quiet DEF Threads, Neutral, Looping

LEMMA YieldStep ==
    ASSUME IInv, NEW t \in Threads, Yield(t), UNCHANGED <<setup, preemptive>>
    PROVE  IInv'
<1>0. /\ TypeOK /\ SetupInv /\ pc \in [Threads -> Labels] /\ cur \in Threads /\ Client # Server
      /\ lock \in Threads \cup {NoThread}
      /\ ~preemptive => pc[Other(cur)] \in Parked
  BY DEF IInv, TypeOK, CoreInv, Client, Server
<1>1. /\ UNCHANGED <<ex, registered, preemptive, rest>> /\ args' = args /\ lock' = lock
      /\ cur = t /\ pc[t] = "yield" /\ Goto(t, "main") /\ cur' = Switch(t)
  BY DEF Yield, At, setup, rest
<1>2. /\ pc' \in [Threads -> Labels] /\ \A u \in Threads \ {t} : pc'[u] = pc[u]
      /\ pc'[t] = "main"
  BY <1>0, <1>1 DEF Goto, Labels
<1>3. SetupInv'
  BY <1>0, <1>1, <1>2 DEF SetupInv, ServerSetup, ClientSetup, Serving, Receiving, Calling,
        Looping, Threads, rest, shared, clientvars, servervars
<1>4. cur' \in Threads /\ (~preemptive => pc'[Other(cur')] \in Parked)
  BY <1>0, <1>1, <1>2 DEF Threads, Other, Parked, Switch
<1> QED  BY <1>0, <1>1, <1>2, <1>3, <1>4, Quiet DEF Threads, Neutral, Looping

LEMMA PreemptStep ==
    ASSUME IInv, Preempt, UNCHANGED <<setup, preemptive>>
    PROVE  IInv'
<1>0. /\ TypeOK /\ SetupInv /\ pc \in [Threads -> Labels] /\ cur \in Threads
      /\ lock \in Threads \cup {NoThread}
  BY DEF IInv, TypeOK
<1>1. /\ UNCHANGED <<ex, registered, preemptive, rest>> /\ args' = args /\ lock' = lock
      /\ pc' = pc /\ preemptive /\ cur' = Switch(cur)
  BY DEF Preempt, setup, rest
<1>2. SetupInv'  BY <1>0, <1>1 DEF SetupInv, rest, shared, clientvars, servervars
<1>3. cur' \in Threads  BY <1>0, <1>1 DEF Switch, Other, Threads
<1> QED  BY <1>0, <1>1, <1>2, <1>3, Quiet

-----------------------------------------------------------------------------
(* Steps of the executors. *)

(* A receiver with an item has not counted all its items yet. *)
LEMMA CountFacts ==
    ASSUME IInv
    PROVE  /\ Len(req_items) \in Nat /\ Len(res_items) \in Nat
           /\ mute_send_num \in Nat /\ SendNum \in Nat /\ req_num \in Nat /\ reply_count \in Nat
           /\ reply_count + Len(res_items) <= SendNum
           /\ req_items # <<>> => Len(req_items) > 0 /\ req_num < SendNum
           /\ res_items # <<>> => Len(res_items) > 0 /\ reply_count < SendNum
<1> DEFINE a == One(pc[Server] \in {"rep_push", "rep_test", "rep_store", "rep_uipi", "req_count"})
           b == One(pc[Server] \in {"rep_test", "rep_store", "rep_uipi", "req_count"})
<1>1. a \in Nat /\ b \in Nat /\ b <= a  BY DEF One
<1>2. SendNum - mute_send_num = Len(req_items) + req_num + a  BY DEF IInv, CountInv
<1>3. reply_count + Len(res_items) = req_num + b  BY DEF IInv, CountInv
<1>4. /\ Len(req_items) \in Nat /\ Len(res_items) \in Nat
      /\ mute_send_num \in Nat /\ SendNum \in Nat /\ req_num \in Nat /\ reply_count \in Nat
      /\ req_items # <<>> => Len(req_items) > 0
      /\ res_items # <<>> => Len(res_items) > 0
  BY Sized, LenProperties, EmptySeq DEF IInv, TypeOK
<1> HIDE DEF a, b
<1> QED  BY <1>1, <1>2, <1>3, <1>4

(* All parts of the invariant but WakesInv, for a step of the server's     *)
(* executor that makes no item and no status change.                       *)
LEMMA ServerSteps ==
    ASSUME IInv, NEW e, ex' = [ex EXCEPT ![Server] = e], ExecutorType(e), Shape(e, 1, {}),
           UNCHANGED <<cur, preemptive, shared, clientvars, servervars>>, cur = Server,
           registered' = registered \/ registered' = registered \cup {Server},
           lock' = lock, uipi' \in [Threads -> BOOLEAN], uipi'[Client] = uipi[Client],
           pc' \in [Threads -> Labels], pc'[Client] = pc[Client],
           pc'[Server] = pc[Server] \/ (pc[Server] \in Neutral /\ pc'[Server] \in Neutral \cup {"req_pop"}),
           SetupInv', WakesInv',
           Server \in registered' => (Receiver \in Live(e) <=> req_num < SendNum),
           pc'[Server] \in Serving => e.current = Receiver /\ Receiver \in Live(e),
           ServerWakes /\ req_num < SendNum => ServerWakes'
    PROVE  IInv'
<1>0. /\ ex'[Server] = e /\ ex'[Client] = ex[Client] /\ ex' = [t \in Threads |-> ex'[t]]
      /\ Client # Server
  BY ServerRuns DEF IInv, Client, Server
<1>1. TypeOK'
  <2>1. \A t \in Threads : ExecutorType(ex'[t])  BY <1>0 DEF IInv, TypeOK, Threads
  <2> QED  BY <2>1 DEF IInv, TypeOK, shared, clientvars, servervars
<1>2. RunInv'
  BY <1>0 DEF IInv, RunInv, Receiving, Calling, clientvars, servervars
<1>3. CountInv'
  <2>1. /\ pc'[Server] \in {"rep_push", "rep_test", "rep_store", "rep_uipi", "req_count"}
             <=> pc[Server] \in {"rep_push", "rep_test", "rep_store", "rep_uipi", "req_count"}
        /\ pc'[Server] \in {"rep_test", "rep_store", "rep_uipi", "req_count"}
             <=> pc[Server] \in {"rep_test", "rep_store", "rep_uipi", "req_count"}
        /\ pc'[Server] = "rep_push" <=> pc[Server] = "rep_push"
    BY DEF Neutral, ServerSetup, ClientSetup, Looping
  <2> QED  BY <2>1 DEF IInv, CountInv, shared, clientvars, servervars
<1>4. OneTokenPerCall'
  <2>1. \A c \in Callers : Outstanding(c)' <=> Outstanding(c)
    BY <1>0 DEF Outstanding, clientvars
  <2> QED  BY <1>1, <2>1 DEF IInv, OneTokenPerCall, shared, clientvars, servervars
<1>5. ValueInv'  BY <1>0 DEF IInv, ValueInv, clientvars
<1>6. CoreInv'
  BY <1>0 DEF IInv, CoreInv, Other, shared, Neutral, ServerSetup, ClientSetup, Looping
<1>7. ClientWakes' <=> ClientWakes
  BY <1>0 DEF ClientWakes, Neutral, ServerSetup, ClientSetup, Looping
<1>8. pc'[Server] = "req_idle" <=> pc[Server] = "req_idle"
  BY DEF Neutral, ServerSetup, ClientSetup, Looping
<1>9. StatusMeansWake'
  BY <1>7, <1>8 DEF IInv, StatusMeansWake, shared, clientvars, servervars
<1>10. req_items # <<>> => req_num < SendNum  BY CountFacts
<1>11. NoStrandedItem'
  <2>1. pc'[Server] = "rep_test" <=> pc[Server] = "rep_test"
    BY DEF Neutral, ServerSetup, ClientSetup, Looping
  <2> QED  BY <1>7, <1>10, <2>1 DEF IInv, NoStrandedItem, shared
<1> QED  BY <1>0, <1>1, <1>2, <1>3, <1>4, <1>5, <1>6, <1>9, <1>11 DEF IInv

(* The same for the client's executor. *)
LEMMA ClientSteps ==
    ASSUME IInv, NEW e, ex' = [ex EXCEPT ![Client] = e], ExecutorType(e), Shape(e, 0, Callers),
           UNCHANGED <<cur, preemptive, shared, clientvars, servervars>>, cur = Client,
           registered' = registered \/ registered' = registered \cup {Client},
           lock' = lock, uipi' \in [Threads -> BOOLEAN], uipi'[Server] = uipi[Server],
           pc' \in [Threads -> Labels], pc'[Server] = pc[Server],
           \/ pc'[Client] = pc[Client] /\ e.current = ex[Client].current
           \/ pc[Client] \in Neutral /\ pc'[Client] \in Neutral \cup {"reply_pop", "call"},
           SetupInv', WakesInv', ValueInv',
           Client \in registered' => (Receiver \in Live(e) <=> reply_count < SendNum),
           pc'[Client] \in Receiving => e.current = Receiver /\ Receiver \in Live(e),
           pc'[Client] \in Calling =>
               e.current \in Callers /\ e.current \in Live(e) /\ e.current \notin Queued(e, 1),
           ClientWakes /\ reply_count < SendNum => ClientWakes'
    PROVE  IInv'
<1>0. /\ ex'[Client] = e /\ ex'[Server] = ex[Server] /\ ex' = [t \in Threads |-> ex'[t]]
      /\ Client # Server
  BY ClientRuns DEF IInv, Client, Server
<1>1. TypeOK'
  <2>1. \A t \in Threads : ExecutorType(ex'[t])  BY <1>0 DEF IInv, TypeOK, Threads
  <2> QED  BY <2>1 DEF IInv, TypeOK, shared, clientvars, servervars
<1>2. RunInv'
  BY <1>0 DEF IInv, RunInv, Serving, clientvars, servervars
<1>3. CountInv'  BY DEF IInv, CountInv, shared, clientvars, servervars
<1>4. OneTokenPerCall'
  <2>1. \A c \in Callers : Outstanding(c)' <=> Outstanding(c)
    BY <1>0 DEF Outstanding, clientvars, Neutral, ServerSetup, ClientSetup, Looping
  <2> QED  BY <1>1, <2>1 DEF IInv, OneTokenPerCall, shared, clientvars, servervars
<1>5. CoreInv'
  BY <1>0 DEF IInv, CoreInv, Other, shared, Neutral, ServerSetup, ClientSetup, Looping
<1>6. ServerWakes' <=> ServerWakes
  BY <1>0 DEF ServerWakes, Neutral, ServerSetup, ClientSetup, Looping
<1>7. pc'[Client] = "reply_idle" <=> pc[Client] = "reply_idle"
  BY DEF Neutral, ServerSetup, ClientSetup, Looping
<1>8. StatusMeansWake'
  BY <1>6, <1>7 DEF IInv, StatusMeansWake, shared, clientvars, servervars
<1>9. res_items # <<>> => reply_count < SendNum  BY CountFacts
<1>10. NoStrandedItem'
  <2>1. pc'[Client] = "call_test" <=> pc[Client] = "call_test"
    BY DEF Neutral, ServerSetup, ClientSetup, Looping
  <2> QED  BY <1>6, <1>9, <2>1 DEF IInv, NoStrandedItem, shared
<1> QED  BY <1>0, <1>1, <1>2, <1>3, <1>4, <1>5, <1>8, <1>10 DEF IInv

(* The receivers are spawned and registered. *)
LEMMA RegisterServerStep ==
    ASSUME IInv, Register(Server), UNCHANGED preemptive
    PROVE  IInv'
<1> DEFINE e == Spawn(New, 1)
<1>0. /\ TypeOK /\ SetupInv /\ WakesInv /\ Client # Server
      /\ pc[Server] = "register" /\ cur = Server
      /\ UNCHANGED <<cur, args, lock, preemptive, shared, uipi, clientvars, servervars>>
      /\ registered' = registered \cup {Server} /\ Goto(Server, "set_args")
      /\ ex' = [ex EXCEPT ![Server] = Spawn(@, 1)]
  BY DEF IInv, Register, At, rest, Client, Server
<1>1. pc[Client] = "none" /\ ex[Server] = New  BY <1>0 DEF SetupInv
<1>2. ex' = [ex EXCEPT ![Server] = e]  BY <1>0, <1>1
<1>3. /\ Shape(e, 1, {}) /\ Wakes(e, 1) = 1 /\ Live(e) = {Receiver}
      /\ ExecutorType(e) /\ Receiver \in Queued(e, 1)
  <2>1. Kind(1, {})  BY DEF Kind
  <2> QED  BY <2>1, ShapeSpawnReceiver DEF Shape
<1> HIDE DEF e
<1>4. /\ pc' \in [Threads -> Labels] /\ pc'[Server] = "set_args" /\ pc'[Client] = pc[Client]
  BY <1>0, ServerGoes DEF Labels
<1>5. ex'[Server] = e /\ ex'[Client] = ex[Client]  BY <1>2, ServerRuns DEF IInv
<1>6. SetupInv'
  BY <1>0, <1>1, <1>4, <1>5 DEF SetupInv, ServerSetup, Serving, Looping, shared, clientvars,
                                servervars
<1>7. WakesInv'
  <2>1. ~uipi[Server]  BY <1>0, <1>1 DEF SetupInv, ClientSetup
  <2>2. /\ One(uipi'[Server]) = 0 /\ One(pc'[Client] = "call_uipi") = 0
        /\ One(pc'[Server] \in Serving) = 0
        /\ One(recv_req_status') \in Nat
    BY <1>0, <1>1, <1>4, <2>1 DEF One, Serving
  <2>3. Wakes(ex'[Server], 1) + One(uipi'[Server]) + One(pc'[Client] = "call_uipi")
          + One(pc'[Server] \in Serving) <= 1 + One(recv_req_status')
    BY <1>3, <1>5, <2>2
  <2> QED  BY <1>0, <1>1, <1>4, <1>5, <2>3 DEF WakesInv, shared
<1>8. Receiver \in Live(e) /\ req_num < SendNum
  BY <1>1, <1>3, NothingSent, Sized DEF ClientSetup
<1>9. ServerWakes'  BY <1>3, <1>5 DEF ServerWakes
<1>10. pc'[Server] \notin Serving /\ uipi \in [Threads -> BOOLEAN]
       /\ pc[Server] \in Neutral /\ pc'[Server] \in Neutral
  BY <1>0, <1>4 DEF Serving, Neutral, ServerSetup, TypeOK
<1> QED  BY <1>0, <1>2, <1>3, <1>4, <1>6, <1>7, <1>8, <1>9, <1>10, ServerSteps

LEMMA RegisterClientStep ==
    ASSUME IInv, Register(Client), UNCHANGED preemptive
    PROVE  IInv'
<1> DEFINE e == Spawn(New, 0)
<1>0. /\ TypeOK /\ SetupInv /\ WakesInv /\ Client # Server
      /\ pc[Client] = "register" /\ cur = Client
      /\ UNCHANGED <<cur, args, lock, preemptive, shared, uipi, clientvars, servervars>>
      /\ registered' = registered \cup {Client}
      /\ ex' = [ex EXCEPT ![Client] = Spawn(@, 0)]
      /\ Goto(Client, IF Needed \subseteq args THEN "set_reply" ELSE "panic")
  BY DEF IInv, Register, At, rest, Client, Server
<1>1. ex[Client] = New /\ Needed \subseteq args  BY <1>0 DEF SetupInv
<1>2. ex' = [ex EXCEPT ![Client] = e] /\ Goto(Client, "set_reply")  BY <1>0, <1>1
<1>3. /\ Shape(e, 0, Callers) /\ Wakes(e, 0) = 1 /\ Live(e) = {Receiver}
      /\ ExecutorType(e) /\ Receiver \in Queued(e, 0)
  <2>1. Kind(0, Callers)  BY DEF Kind
  <2> QED  BY <2>1, ShapeSpawnReceiver DEF Shape
<1>4. /\ pc' \in [Threads -> Labels] /\ pc'[Client] = "set_reply" /\ pc'[Server] = pc[Server]
  BY <1>0, <1>2, ClientGoes DEF Labels
<1>5. ex'[Client] = e /\ ex'[Server] = ex[Server]  BY <1>2, ClientRuns DEF IInv
<1>6. SetupInv'
  BY <1>0, <1>1, <1>4, <1>5 DEF SetupInv, ClientSetup, Receiving, Calling, Looping, shared,
                                clientvars, servervars
<1> HIDE DEF e
<1>7. WakesInv'
  <2>1. ~uipi[Client]  BY <1>0 DEF SetupInv, ClientSetup
  <2>2. pc[Server] # "rep_uipi"  BY <1>0, NothingSent DEF ClientSetup
  <2>3. /\ One(uipi'[Client]) = 0 /\ One(pc'[Server] = "rep_uipi") = 0
        /\ One(pc'[Client] \in Receiving) = 0
        /\ One(recv_reply_status') \in Nat
    BY <1>0, <1>4, <2>1, <2>2 DEF One, Receiving
  <2>4. Wakes(ex'[Client], 0) + One(uipi'[Client]) + One(pc'[Server] = "rep_uipi")
          + One(pc'[Client] \in Receiving) <= 1 + One(recv_reply_status')
    BY <1>3, <1>5, <2>3
  <2>5. pc[Client] # "call_uipi" /\ pc'[Client] # "call_uipi"  BY <1>0, <1>4
  <2> QED  BY <1>0, <1>4, <1>5, <2>4, <2>5 DEF WakesInv, shared
<1>8. Receiver \in Live(e) /\ reply_count < SendNum
  BY <1>0, <1>3, NothingSent, Sized DEF ClientSetup
<1>9. ClientWakes'  BY <1>3, <1>5 DEF ClientWakes
<1>10. /\ pc'[Client] \notin Receiving /\ pc'[Client] \notin Calling
       /\ uipi \in [Threads -> BOOLEAN]
       /\ pc[Client] \in Neutral /\ pc'[Client] \in Neutral
  BY <1>0, <1>4 DEF Receiving, Calling, Neutral, ClientSetup, TypeOK
<1>11. ValueInv'
  BY <1>0 DEF ValueInv, SetupInv, ClientSetup, clientvars
<1> QED  BY <1>0, <1>2, <1>3, <1>4, <1>6, <1>7, <1>8, <1>9, <1>10, <1>11, ClientSteps

(* The client spawns its callers. *)
LEMMA SpawnStep ==
    ASSUME IInv, SpawnCallers, UNCHANGED preemptive
    PROVE  IInv'
<1> DEFINE x == Spawn(New, 0)
           e == SpawnMany(x, CoroutineNum, 1)
<1>0. /\ TypeOK /\ SetupInv /\ WakesInv /\ Client # Server
      /\ pc[Client] = "spawn" /\ cur = Client
      /\ UNCHANGED <<cur, args, lock, registered, preemptive, shared, uipi, clientvars, servervars>>
      /\ ex' = [ex EXCEPT ![Client] = SpawnMany(@, CoroutineNum, 1)]
      /\ Goto(Client, "main")
  BY DEF IInv, SpawnCallers, At, rest, setup, Client, Server
<1>1. ex[Client] = x  BY <1>0 DEF SetupInv
<1>2. ex' = [ex EXCEPT ![Client] = e]  BY <1>0, <1>1
<1>3. /\ Shape(e, 0, Callers) /\ ExecutorType(e) /\ Receiver \in Live(e)
      /\ e.ready[0] = x.ready[0] /\ e.delay = {} /\ x.delay = {}
  <2>1. Kind(0, Callers)  BY DEF Kind
  <2>2. x.delay = {}  BY <2>1, ShapeSpawnReceiver
  <2> QED  BY <2>2, ShapeSpawnCallers DEF Shape
<1> HIDE DEF e, x
<1>4. /\ pc' \in [Threads -> Labels] /\ pc'[Client] = "main" /\ pc'[Server] = pc[Server]
  BY <1>0, ClientGoes DEF Labels
<1>5. ex'[Client] = e /\ ex'[Server] = ex[Server]  BY <1>2, ClientRuns DEF IInv
<1>6. SetupInv'
  BY <1>0, <1>1, <1>4, <1>5 DEF SetupInv, ClientSetup, Receiving, Calling, Looping, shared,
                                clientvars, servervars
<1>7. Wakes(e, 0) = Wakes(x, 0) /\ Queued(e, 0) = Queued(x, 0)
  BY <1>3 DEF Wakes, Queued
<1>8. WakesInv'
  <2>1. /\ pc[Client] # "call_uipi" /\ pc'[Client] # "call_uipi"
        /\ pc[Client] \notin Receiving /\ pc'[Client] \notin Receiving
    BY <1>0, <1>4 DEF Receiving
  <2> QED  BY <1>0, <1>1, <1>4, <1>5, <1>7, <2>1 DEF WakesInv, shared
<1>9. reply_count < SendNum
  BY <1>0, NothingSent, Sized DEF ClientSetup
<1>10. ClientWakes => ClientWakes'
  BY <1>0, <1>1, <1>3, <1>4, <1>5, <1>7 DEF ClientWakes
<1>11. /\ pc'[Client] \notin Receiving /\ pc'[Client] \notin Calling
       /\ uipi \in [Threads -> BOOLEAN]
       /\ pc[Client] \in Neutral /\ pc'[Client] \in Neutral
  BY <1>0, <1>4 DEF Receiving, Calling, Neutral, ClientSetup, Looping, TypeOK
<1>12. ValueInv'
  BY <1>0 DEF ValueInv, SetupInv, ClientSetup, clientvars
<1> QED  BY <1>0, <1>2, <1>3, <1>4, <1>6, <1>8, <1>9, <1>10, <1>11, <1>12, ClientSteps

(* A receiver's delayed wake always finds room. *)
LEMMA RoomToWake ==
    ASSUME Sizes, IInv
    PROVE  /\ Receiver \in ex[Server].delay => Len(ex[Server].ready[1]) < MaxTask - 1
           /\ Receiver \in ex[Client].delay => Len(ex[Client].ready[0]) < MaxTask - 1
<1>0. MaxTask \in Nat /\ MaxTask > 2  BY Constants DEF Sizes
<1>1. Receiver \in ex[Server].delay => Len(ex[Server].ready[1]) < MaxTask - 1
  <2> DEFINE w == Wakes(ex[Server], 1)
             a == One(uipi[Server])
             b == One(pc[Client] = "call_uipi")
             c == One(pc[Server] \in Serving)
             d == One(recv_req_status)
             n == Len(ex[Server].ready[1])
  <2>1. w + a + b + c <= 1 + d  BY DEF IInv, WakesInv
  <2>2. a \in Nat /\ b \in Nat /\ c \in Nat /\ d \in 0 .. 1  BY DEF One
  <2>3. n \in Nat  BY ShapeQueues DEF IInv, RunInv, Kind
  <2>4. Receiver \in ex[Server].delay => w = n + 1  BY DEF Wakes, One
  <2> HIDE DEF w, a, b, c, d, n
  <2>5. Receiver \in ex[Server].delay => n < MaxTask - 1  BY <1>0, <2>1, <2>2, <2>3, <2>4
  <2> QED  BY <2>5 DEF n
<1>2. Receiver \in ex[Client].delay => Len(ex[Client].ready[0]) < MaxTask - 1
  <2> DEFINE w == Wakes(ex[Client], 0)
             a == One(uipi[Client])
             b == One(pc[Server] = "rep_uipi")
             c == One(pc[Client] \in Receiving)
             d == One(recv_reply_status)
             n == Len(ex[Client].ready[0])
  <2>1. w + a + b + c <= 1 + d  BY DEF IInv, WakesInv
  <2>2. a \in Nat /\ b \in Nat /\ c \in Nat /\ d \in 0 .. 1  BY DEF One
  <2>3. n \in Nat  BY ShapeQueues DEF IInv, RunInv, Kind
  <2>4. Receiver \in ex[Client].delay => w = n + 1  BY DEF Wakes, One
  <2> HIDE DEF w, a, b, c, d, n
  <2>5. Receiver \in ex[Client].delay => n < MaxTask - 1  BY <1>0, <2>1, <2>2, <2>3, <2>4
  <2> QED  BY <2>5 DEF n
<1> QED  BY <1>1, <1>2

(* Past its setup a thread is registered, and its receiver lives until the *)
(* last item.                                                              *)
LEMMA PastSetup ==
    ASSUME IInv
    PROVE  /\ pc[Server] \in Serving \cup Looping => Server \in registered
           /\ pc[Client] \in Receiving \cup Calling \cup Looping => Client \in registered
           /\ pc[Server] \in Serving \cup Looping =>
                 (Receiver \in Live(ex[Server]) <=> req_num < SendNum)
           /\ pc[Client] \in Receiving \cup Calling \cup Looping =>
                 (Receiver \in Live(ex[Client]) <=> reply_count < SendNum)
BY DEF IInv, SetupInv, RunInv, Serving, Receiving, Calling, Looping

(* run_until_blocked fetches a coroutine, or yields. *)
LEMMA FetchServerStep ==
    ASSUME Sizes, IInv, FetchNext(Server), UNCHANGED <<setup, preemptive>>
    PROVE  IInv'
<1> DEFINE x == ex[Server]
           f == Fetch(x)
           e == f.ex
           l == IF f.got = NoCid THEN "yield" ELSE "req_pop"
<1>0. /\ TypeOK /\ SetupInv /\ WakesInv /\ Client # Server /\ Shape(x, 1, {}) /\ Kind(1, {})
      /\ pc[Server] = "fetch" /\ cur = Server
      /\ UNCHANGED <<cur, args, lock, registered, preemptive, shared, uipi, clientvars, servervars>>
      /\ ex' = [ex EXCEPT ![Server] = e] /\ Goto(Server, l)
  BY DEF IInv, RunInv, FetchNext, At, setup, Entry, Client, Server, Kind
<1>1. Fetched(x, f, 1, {})  BY <1>0, RoomToWake, ShapeFetch
<1> HIDE DEF f
<1>2. /\ Shape(e, 1, {}) /\ ExecutorType(e) /\ Live(e) = Live(x)
      /\ f.got = Receiver \/ f.got = NoCid
      /\ f.got = Receiver => Receiver \in Live(e) /\ e.current = Receiver
      /\ Receiver \in Live(x) /\ Coming(x, 1) => Coming(e, 1) \/ f.got = Receiver
      /\ Wakes(e, 1) + One(f.got = Receiver) <= Wakes(x, 1)
  <2>1. Shape(e, 1, {}) /\ e.tasks = x.tasks  BY <1>1 DEF Fetched
  <2>2. ExecutorType(e) /\ Live(e) = Live(x)  BY <2>1 DEF Shape, Live
  <2>3. Receiver # NoCid  BY Constants DEF Receiver, NoCid
  <2> QED  BY <1>1, <2>1, <2>2, <2>3 DEF Fetched
<1>3. Receiver # NoCid  BY Constants DEF Receiver, NoCid
<1>4. /\ pc' \in [Threads -> Labels] /\ pc'[Server] = l /\ pc'[Client] = pc[Client]
  BY <1>0, ServerGoes DEF Labels
<1>5. /\ pc'[Server] = "req_pop" \/ pc'[Server] = "yield"
      /\ pc'[Server] = "req_pop" <=> f.got = Receiver
  BY <1>2, <1>3, <1>4
<1>6. ex'[Server] = e /\ ex'[Client] = ex[Client]  BY <1>0, ServerRuns DEF IInv
<1> HIDE DEF e, l
<1>7. Server \in registered /\ (Receiver \in Live(x) <=> req_num < SendNum)
  BY <1>0, PastSetup DEF Looping
<1>8. SetupInv'
  BY <1>0, <1>4, <1>5, <1>6, <1>7 DEF SetupInv, ServerSetup, Serving, Looping, shared,
                                clientvars, servervars
<1>9. WakesInv'
  <2> DEFINE a == One(uipi[Server])
             b == One(pc[Client] = "call_uipi")
             c == One(pc'[Server] \in Serving)
             d == One(recv_req_status)
             w == Wakes(x, 1)
             v == Wakes(e, 1)
  <2>1. One(pc[Server] \in Serving) = 0 /\ c \in Nat  BY <1>0 DEF One, Serving
  <2>2. w + a + b + One(pc[Server] \in Serving) <= 1 + d  BY <1>0 DEF WakesInv
  <2>3. v + c <= w
    <3>1. One(f.got = Receiver) = c  BY <1>5 DEF One, Serving
    <3> QED  BY <1>2, <3>1
  <2>4. v \in Nat /\ w \in Nat  BY <1>0, <1>2, ShapeQueues
  <2>5. a \in Nat /\ b \in Nat /\ d \in Nat  BY DEF One
  <2> HIDE DEF a, b, c, d, w, v
  <2>6. v + a + b + c <= 1 + d  BY <2>1, <2>2, <2>3, <2>4, <2>5
  <2>7. Wakes(ex'[Server], 1) + One(uipi'[Server]) + One(pc'[Client] = "call_uipi")
          + One(pc'[Server] \in Serving) <= 1 + One(recv_req_status')
    BY <1>0, <1>4, <1>6, <2>6 DEF a, b, c, d, v, shared
  <2>8. pc[Server] # "rep_uipi" /\ pc'[Server] # "rep_uipi" /\ pc'[Server] # "rep_store"
    BY <1>0, <1>5
  <2> QED  BY <1>0, <1>4, <1>6, <2>7, <2>8 DEF WakesInv, shared
<1>10. ServerWakes /\ req_num < SendNum => ServerWakes'
  <2> SUFFICES ASSUME ServerWakes, req_num < SendNum  PROVE ServerWakes'  OBVIOUS
  <2>1. CASE Coming(x, 1)
    <3>1. Coming(e, 1) \/ pc'[Server] = "req_pop"  BY <1>2, <1>5, <1>7, <2>1
    <3> QED  BY <1>6, <3>1 DEF ServerWakes, Coming
  <2>2. CASE ~Coming(x, 1)
    BY <1>0, <1>4, <2>2 DEF ServerWakes, Coming
  <2> QED  BY <2>1, <2>2
<1>11. /\ pc'[Server] \in Serving => e.current = Receiver /\ Receiver \in Live(e)
       /\ uipi' \in [Threads -> BOOLEAN] /\ uipi'[Client] = uipi[Client]
       /\ pc[Server] \in Neutral /\ pc'[Server] \in Neutral \cup {"req_pop"}
  BY <1>0, <1>2, <1>5 DEF Serving, Neutral, Looping, TypeOK
<1>12. Receiver \in Live(e) <=> req_num < SendNum  BY <1>2, <1>7
<1> QED  BY <1>0, <1>2, <1>4, <1>8, <1>9, <1>10, <1>11, <1>12, ServerSteps

LEMMA FetchClientStep ==
    ASSUME Sizes, IInv, FetchNext(Client), UNCHANGED <<setup, preemptive>>
    PROVE  IInv'
<1> DEFINE x == ex[Client]
           f == Fetch(x)
           e == f.ex
           l == IF f.got = NoCid THEN "yield"
                ELSE IF f.got = Receiver THEN "reply_pop" ELSE "call"
<1>0. /\ TypeOK /\ SetupInv /\ WakesInv /\ ValueInv /\ Client # Server
      /\ Shape(x, 0, Callers) /\ Kind(0, Callers)
      /\ pc[Client] = "fetch" /\ cur = Client
      /\ UNCHANGED <<cur, args, lock, registered, preemptive, shared, uipi, clientvars, servervars>>
      /\ ex' = [ex EXCEPT ![Client] = e] /\ Goto(Client, l)
  BY DEF IInv, RunInv, FetchNext, At, setup, Entry, Client, Server, Kind
<1>1. Fetched(x, f, 0, Callers)  BY <1>0, RoomToWake, ShapeFetch
<1>2. Receiver # NoCid /\ Receiver \notin Callers /\ NoCid \notin Callers
  BY Sized, Constants DEF Receiver, NoCid, NoItem
<1> HIDE DEF f
<1>3. /\ Shape(e, 0, Callers) /\ ExecutorType(e) /\ Live(e) = Live(x)
      /\ f.got \in Callers \cup {Receiver, NoCid}
      /\ f.got # NoCid => f.got \in Live(e) /\ e.current = f.got
      /\ Receiver \in Live(x) /\ Coming(x, 0) => Coming(e, 0) \/ f.got = Receiver
      /\ Wakes(e, 0) + One(f.got = Receiver) <= Wakes(x, 0)
      /\ \A c \in Callers : c \in Queued(e, 1) => c \in Queued(x, 1) /\ c # f.got
      /\ f.got \in Callers => f.got \in Queued(x, 1)
  <2>1. Shape(e, 0, Callers) /\ e.tasks = x.tasks  BY <1>1 DEF Fetched
  <2>2. ExecutorType(e) /\ Live(e) = Live(x)  BY <2>1 DEF Shape, Live
  <2> QED  BY <1>1, <2>1, <2>2 DEF Fetched
<1>4. /\ pc' \in [Threads -> Labels] /\ pc'[Client] = l /\ pc'[Server] = pc[Server]
  BY <1>0, ClientGoes DEF Labels
<1>5. /\ pc'[Client] \in {"yield", "reply_pop", "call"}
      /\ pc'[Client] = "reply_pop" <=> f.got = Receiver
      /\ pc'[Client] = "call" => f.got \in Callers /\ f.got # NoCid
  BY <1>2, <1>3, <1>4
<1>6. ex'[Client] = e /\ ex'[Server] = ex[Server]  BY <1>0, ClientRuns DEF IInv
<1> HIDE DEF e, l
<1>7. Client \in registered /\ (Receiver \in Live(x) <=> reply_count < SendNum)
  BY <1>0, PastSetup DEF Looping
<1>8. SetupInv'
  BY <1>0, <1>4, <1>5, <1>6, <1>7 DEF SetupInv, ClientSetup, Receiving, Calling, Looping, shared,
                                clientvars, servervars
<1>9. WakesInv'
  <2> DEFINE a == One(uipi[Client])
             b == One(pc[Server] = "rep_uipi")
             c == One(pc'[Client] \in Receiving)
             d == One(recv_reply_status)
             w == Wakes(x, 0)
             v == Wakes(e, 0)
  <2>1. One(pc[Client] \in Receiving) = 0 /\ c \in Nat  BY <1>0 DEF One, Receiving
  <2>2. w + a + b + One(pc[Client] \in Receiving) <= 1 + d  BY <1>0 DEF WakesInv
  <2>3. v + c <= w
    <3>1. One(f.got = Receiver) = c  BY <1>5 DEF One, Receiving
    <3> QED  BY <1>3, <3>1
  <2>4. v \in Nat /\ w \in Nat  BY <1>0, <1>3, ShapeQueues
  <2>5. a \in Nat /\ b \in Nat /\ d \in Nat  BY DEF One
  <2> HIDE DEF a, b, c, d, w, v
  <2>6. v + a + b + c <= 1 + d  BY <2>1, <2>2, <2>3, <2>4, <2>5
  <2>7. Wakes(ex'[Client], 0) + One(uipi'[Client]) + One(pc'[Server] = "rep_uipi")
          + One(pc'[Client] \in Receiving) <= 1 + One(recv_reply_status')
    BY <1>0, <1>4, <1>6, <2>6 DEF a, b, c, d, v, shared
  <2>8. /\ pc[Client] # "call_uipi" /\ pc'[Client] # "call_uipi" /\ pc'[Client] # "call_store"
        /\ pc'[Client] \notin {"none", "wait_args", "register"}
    BY <1>0, <1>5
  <2> QED  BY <1>0, <1>4, <1>6, <2>7, <2>8 DEF WakesInv, shared
<1>10. ClientWakes /\ reply_count < SendNum => ClientWakes'
  <2> SUFFICES ASSUME ClientWakes, reply_count < SendNum  PROVE ClientWakes'  OBVIOUS
  <2>1. CASE Coming(x, 0)
    <3>1. Coming(e, 0) \/ pc'[Client] = "reply_pop"  BY <1>3, <1>5, <1>7, <2>1
    <3> QED  BY <1>6, <3>1 DEF ClientWakes, Coming
  <2>2. CASE ~Coming(x, 0)
    BY <1>0, <1>4, <2>2 DEF ClientWakes, Coming
  <2> QED  BY <2>1, <2>2
<1>11. /\ uipi' \in [Threads -> BOOLEAN] /\ uipi'[Server] = uipi[Server]
       /\ pc[Client] \in Neutral /\ pc'[Client] \in Neutral \cup {"reply_pop", "call"}
  BY <1>0, <1>5 DEF Neutral, Looping, TypeOK
<1>12. Receiver \in Live(e) <=> reply_count < SendNum  BY <1>3, <1>7
<1>13. pc'[Client] \in Receiving => e.current = Receiver /\ Receiver \in Live(e)
  BY <1>2, <1>3, <1>5 DEF Receiving
<1>14. pc'[Client] \in Calling =>
          e.current \in Callers /\ e.current \in Live(e) /\ e.current \notin Queued(e, 1)
  BY <1>3, <1>5 DEF Calling
<1>15. ValueInv'
  <2> SUFFICES ASSUME NEW c \in awaiting,
                      c \in Queued(e, 1) \/ (pc'[Client] = "call" /\ c = e.current)
               PROVE  immediate[c] = c
    BY <1>0, <1>6 DEF ValueInv, clientvars
  <2>1. c \in Callers  BY <1>0 DEF TypeOK
  <2>2. c \in Queued(x, 1)  BY <2>1, <1>3, <1>5
  <2> QED  BY <1>0, <2>2 DEF ValueInv
<1> QED  BY <1>0, <1>3, <1>4, <1>8, <1>9, <1>10, <1>11, <1>12, <1>13, <1>14, <1>15, ClientSteps

(* The handler of a user interrupt delay-wakes the receiver. *)
LEMMA InterruptServerStep ==
    ASSUME IInv, TakeInterrupt(Server)
    PROVE  IInv'
<1> DEFINE x == ex[Server]
           e == DelayWake(x, Receiver)
<1>0. /\ TypeOK /\ SetupInv /\ WakesInv /\ RunInv /\ Client # Server /\ Shape(x, 1, {}) /\ Kind(1, {})
      /\ uipi[Server] /\ cur = Server
      /\ UNCHANGED <<cur, args, lock, registered, preemptive, shared, clientvars, servervars>>
      /\ uipi' = [uipi EXCEPT ![Server] = FALSE]
      /\ Server \in registered => ex' = [ex EXCEPT ![Server] = e] /\ pc' = pc
  BY DEF IInv, RunInv, TakeInterrupt, Interrupt, setup, Client, Server, Kind
<1>1. pc[Client] \notin ClientSetup /\ Server \in registered
  BY <1>0 DEF SetupInv, ServerSetup, ClientSetup
<1>2. ex' = [ex EXCEPT ![Server] = e] /\ pc' = pc  BY <1>0, <1>1
<1>3. /\ Shape(e, 1, {}) /\ ExecutorType(e) /\ Live(e) = Live(x) /\ e.current = x.current
      /\ e.delay = {Receiver} /\ e.ready = x.ready
  <2>1. Shape(e, 1, {}) /\ Frame(x, e) /\ e.ready = x.ready /\ e.delay = {Receiver}
    BY <1>0, ShapeDelay
  <2> HIDE DEF e
  <2> QED  BY <2>1 DEF Shape, Frame, Live
<1> HIDE DEF e
<1>4. ex'[Server] = e /\ ex'[Client] = ex[Client]  BY <1>2, ServerRuns DEF IInv
<1>5. /\ uipi' \in [Threads -> BOOLEAN] /\ ~uipi'[Server] /\ uipi'[Client] = uipi[Client]
  BY <1>0 DEF TypeOK, Threads
<1>6. SetupInv'
  BY <1>0, <1>1, <1>2, <1>4 DEF SetupInv, clientvars
<1>7. WakesInv'
  <2> DEFINE b == One(pc[Client] = "call_uipi")
             c == One(pc[Server] \in Serving)
             d == One(recv_req_status)
             w == Wakes(x, 1)
             v == Wakes(e, 1)
             n == Len(x.ready[1])
  <2>1. w + One(uipi[Server]) + b + c <= 1 + d  BY <1>0 DEF WakesInv
  <2>2. One(uipi[Server]) = 1 /\ One(uipi'[Server]) = 0  BY <1>0, <1>5 DEF One
  <2>3. v = n + 1  BY <1>3 DEF Wakes, One
  <2>4. n \in Nat  BY <1>0, ShapeQueues
  <2>5. w \in Nat /\ w >= n
    <3> DEFINE z == One(Receiver \in x.delay)
    <3>1. w = n + z  BY DEF Wakes
    <3>2. z \in Nat  BY DEF One
    <3> HIDE DEF w, n, z
    <3> QED  BY <2>4, <3>1, <3>2
  <2>6. b \in Nat /\ c \in Nat /\ d \in Nat  BY DEF One
  <2> HIDE DEF b, c, d, w, v, n
  <2>7. v + One(uipi'[Server]) + b + c <= 1 + d  BY <2>1, <2>2, <2>3, <2>4, <2>5, <2>6
  <2>8. Wakes(ex'[Server], 1) + One(uipi'[Server]) + One(pc'[Client] = "call_uipi")
          + One(pc'[Server] \in Serving) <= 1 + One(recv_req_status')
    BY <1>0, <1>2, <1>4, <2>7 DEF b, c, d, v, shared
  <2> QED  BY <1>0, <1>2, <1>4, <1>5, <2>8 DEF WakesInv, shared
<1>8. ServerWakes'  BY <1>3, <1>4 DEF ServerWakes
<1>9. /\ Receiver \in Live(e) <=> req_num < SendNum
      /\ pc'[Server] \in Serving => e.current = Receiver /\ Receiver \in Live(e)
  BY <1>0, <1>1, <1>2, <1>3 DEF RunInv
<1>10. pc' \in [Threads -> Labels]  BY <1>0, <1>2 DEF TypeOK
<1> QED  BY <1>0, <1>2, <1>3, <1>5, <1>6, <1>7, <1>8, <1>9, <1>10, ServerSteps

LEMMA InterruptClientStep ==
    ASSUME IInv, TakeInterrupt(Client)
    PROVE  IInv'
<1> DEFINE x == ex[Client]
           e == DelayWake(x, Receiver)
<1>0. /\ TypeOK /\ SetupInv /\ WakesInv /\ RunInv /\ ValueInv /\ Client # Server
      /\ Shape(x, 0, Callers) /\ Kind(0, Callers)
      /\ uipi[Client] /\ cur = Client
      /\ UNCHANGED <<cur, args, lock, registered, preemptive, shared, clientvars, servervars>>
      /\ uipi' = [uipi EXCEPT ![Client] = FALSE]
      /\ Client \in registered => ex' = [ex EXCEPT ![Client] = e] /\ pc' = pc
  BY DEF IInv, RunInv, TakeInterrupt, Interrupt, setup, Client, Server, Kind
<1>1. pc[Client] \notin ClientSetup /\ Client \in registered
  BY <1>0 DEF SetupInv, ServerSetup, ClientSetup
<1>2. ex' = [ex EXCEPT ![Client] = e] /\ pc' = pc  BY <1>0, <1>1
<1>3. /\ Shape(e, 0, Callers) /\ ExecutorType(e) /\ Live(e) = Live(x) /\ e.current = x.current
      /\ e.delay = {Receiver} /\ e.ready = x.ready /\ Queued(e, 1) = Queued(x, 1)
  <2>1. Shape(e, 0, Callers) /\ Frame(x, e) /\ e.ready = x.ready /\ e.delay = {Receiver}
    BY <1>0, ShapeDelay
  <2> HIDE DEF e
  <2> QED  BY <2>1 DEF Shape, Frame, Live, Queued
<1> HIDE DEF e
<1>4. ex'[Client] = e /\ ex'[Server] = ex[Server]  BY <1>2, ClientRuns DEF IInv
<1>5. /\ uipi' \in [Threads -> BOOLEAN] /\ ~uipi'[Client] /\ uipi'[Server] = uipi[Server]
  BY <1>0 DEF TypeOK, Threads
<1>6. SetupInv'
  BY <1>0, <1>1, <1>2, <1>4 DEF SetupInv, ClientSetup, clientvars
<1>7. WakesInv'
  <2> DEFINE b == One(pc[Server] = "rep_uipi")
             c == One(pc[Client] \in Receiving)
             d == One(recv_reply_status)
             w == Wakes(x, 0)
             v == Wakes(e, 0)
             n == Len(x.ready[0])
  <2>1. w + One(uipi[Client]) + b + c <= 1 + d  BY <1>0 DEF WakesInv
  <2>2. One(uipi[Client]) = 1 /\ One(uipi'[Client]) = 0  BY <1>0, <1>5 DEF One
  <2>3. v = n + 1  BY <1>3 DEF Wakes, One
  <2>4. n \in Nat  BY <1>0, ShapeQueues
  <2>5. w \in Nat /\ w >= n
    <3> DEFINE z == One(Receiver \in x.delay)
    <3>1. w = n + z  BY DEF Wakes
    <3>2. z \in Nat  BY DEF One
    <3> HIDE DEF w, n, z
    <3> QED  BY <2>4, <3>1, <3>2
  <2>6. b \in Nat /\ c \in Nat /\ d \in Nat  BY DEF One
  <2> HIDE DEF b, c, d, w, v, n
  <2>7. v + One(uipi'[Client]) + b + c <= 1 + d  BY <2>1, <2>2, <2>3, <2>4, <2>5, <2>6
  <2>8. Wakes(ex'[Client], 0) + One(uipi'[Client]) + One(pc'[Server] = "rep_uipi")
          + One(pc'[Client] \in Receiving) <= 1 + One(recv_reply_status')
    BY <1>0, <1>2, <1>4, <2>7 DEF b, c, d, v, shared
  <2> QED  BY <1>0, <1>2, <1>4, <1>5, <2>8 DEF WakesInv, shared
<1>8. ClientWakes'  BY <1>3, <1>4 DEF ClientWakes
<1>9. /\ Receiver \in Live(e) <=> reply_count < SendNum
      /\ pc'[Client] \in Receiving => e.current = Receiver /\ Receiver \in Live(e)
      /\ pc'[Client] \in Calling =>
            e.current \in Callers /\ e.current \in Live(e) /\ e.current \notin Queued(e, 1)
  BY <1>0, <1>1, <1>2, <1>3 DEF RunInv
<1>10. pc' \in [Threads -> Labels]  BY <1>0, <1>2 DEF TypeOK
<1>11. ValueInv'  BY <1>0, <1>2, <1>3, <1>4 DEF ValueInv, clientvars
<1> QED  BY <1>0, <1>2, <1>3, <1>5, <1>6, <1>7, <1>8, <1>9, <1>10, <1>11, ClientSteps

-----------------------------------------------------------------------------
(* Calls. *)

(* Where the token of a call is, it is nowhere else. *)
LEMMA TokenFacts ==
    ASSUME IInv, NEW c \in Callers
    PROVE  /\ Occurrences(req_items, c) \in 0 .. 1 /\ Occurrences(res_items, c) \in 0 .. 1
           /\ item = c \/ immediate[c] = c =>
                 Occurrences(req_items, c) = 0 /\ Occurrences(res_items, c) = 0
           /\ item = c => immediate[c] # c
           /\ Occurrences(req_items, c) = 1 => Occurrences(res_items, c) = 0
           /\ Occurrences(res_items, c) = 1 => Outstanding(c)
           /\ ~Outstanding(c) =>
                 /\ Occurrences(req_items, c) = 0 /\ Occurrences(res_items, c) = 0
                 /\ item # c /\ immediate[c] # c
<1>1. Occurrences(req_items, c) \in Nat /\ Occurrences(res_items, c) \in Nat
  BY OccurrencesFinite DEF IInv, TypeOK
<1>2. Occurrences(req_items, c) + Occurrences(res_items, c)
         + (IF item = c THEN 1 ELSE 0) + (IF immediate[c] = c THEN 1 ELSE 0)
         = IF Outstanding(c) THEN 1 ELSE 0
  BY DEF IInv, OneTokenPerCall
<1> QED  BY <1>1, <1>2

(* A running caller owns no item, and the request ring has room for one.   *)
LEMMA CallerFree ==
    ASSUME Sizes, IInv, pc[Client] = "call"
    PROVE  LET c == ex[Client].current
           IN  /\ c \in Callers /\ c \in TaskIds /\ c \in Live(ex[Client])
               /\ c \notin Queued(ex[Client], 1)
               /\ c \in awaiting => immediate[c] # NoItem
               /\ Occurrences(req_items, c) = 0 /\ Occurrences(res_items, c) = 0 /\ item # c
               /\ Len(req_items) < RingSize
<1> DEFINE c == ex[Client].current
<1>0. /\ c \in Callers /\ c \in Live(ex[Client]) /\ c \notin Queued(ex[Client], 1)
      /\ req_items \in Seq(Callers)
  BY DEF IInv, RunInv, Calling, TypeOK
<1>1. c \in awaiting => immediate[c] = c  BY DEF IInv, ValueInv
<1>2. c \notin awaiting => ~Outstanding(c)  BY DEF Outstanding
<1>3. Occurrences(req_items, c) = 0 /\ Occurrences(res_items, c) = 0 /\ item # c
  <2>1. CASE c \in awaiting  BY <1>0, <1>1, <2>1, TokenFacts
  <2>2. CASE c \notin awaiting  BY <1>0, <1>2, <2>2, TokenFacts
  <2> QED  BY <2>1, <2>2
<1>4. \A d \in Callers : Occurrences(req_items, d) <= 1  BY TokenFacts
<1>5. Len(req_items) < CoroutineNum  BY <1>0, <1>3, <1>4, RoomFor
<1>6. Len(req_items) \in Nat /\ CoroutineNum \in Nat /\ RingSize \in Nat /\ CoroutineNum <= RingSize
  BY <1>0, Sized, LenProperties DEF Sizes
<1>7. Len(req_items) < RingSize  BY <1>5, <1>6
<1> QED  BY <1>0, <1>1, <1>3, <1>7, Sized

(* A caller starts a call. *)
LEMMA CallStep ==
    ASSUME Sizes, IInv, Call, mute_send_num > 0, UNCHANGED <<setup, preemptive>>
    PROVE  IInv'
<1> DEFINE x == ex[Client]
           c == x.current
<1>0. /\ TypeOK /\ SetupInv /\ RunInv /\ WakesInv /\ CountInv /\ OneTokenPerCall /\ ValueInv
      /\ CoreInv /\ StatusMeansWake /\ NoStrandedItem /\ ex = [t \in Threads |-> ex[t]]
      /\ Client # Server /\ pc[Client] = "call" /\ cur = Client
  BY DEF IInv, Call, At, Client, Server
<1>1. /\ c \in Callers /\ c \in TaskIds /\ c \in Live(x) /\ c \notin Queued(x, 1)
      /\ c \in awaiting => immediate[c] # NoItem
      /\ Occurrences(req_items, c) = 0 /\ Occurrences(res_items, c) = 0 /\ item # c
      /\ Len(req_items) < RingSize
  BY <1>0, CallerFree
<1>2. /\ UNCHANGED <<ex, cur, args, lock, registered, preemptive, res_items, recv_req_status,
                     recv_reply_status, uipi, reply_count, item, req_num>>
      /\ immediate' = [immediate EXCEPT ![c] = NoItem]
      /\ awaiting' = awaiting \ {c}
      /\ mute_send_num' = mute_send_num - 1
      /\ req_items' = Append(req_items, c)
      /\ Goto(Client, "call_test")
  BY <1>0, <1>1, CountFacts DEF Call, setup, servervars
<1>3. /\ pc' \in [Threads -> Labels] /\ pc'[Client] = "call_test" /\ pc'[Server] = pc[Server]
  BY <1>0, <1>2, ClientGoes DEF Labels
<1>4. /\ req_items' \in Seq(Callers) /\ Len(req_items') = Len(req_items) + 1
      /\ Len(req_items) \in Nat /\ req_items' # <<>>
  BY <1>0, <1>1, <1>2, AppendProperties DEF TypeOK
<1>5. /\ mute_send_num' \in 0 .. SendNum
      /\ immediate' \in [TaskIds -> Callers \cup {NoItem}]
      /\ immediate'[c] = NoItem /\ \A d \in Callers \ {c} : immediate'[d] = immediate[d]
  BY <1>0, <1>1, <1>2, Sized DEF TypeOK
<1>6. TypeOK'
  <2>1. Len(req_items') <= RingSize  BY <1>1, <1>4, Sized
  <2> QED  BY <1>0, <1>2, <1>3, <1>4, <1>5, <2>1 DEF TypeOK
<1>7. SetupInv'
  BY <1>0, <1>2, <1>3 DEF SetupInv, ClientSetup, Calling
<1>8. RunInv'
  BY <1>0, <1>1, <1>2, <1>3 DEF RunInv, Receiving, Calling
<1>9. CountInv'
  <2> DEFINE a == One(pc[Server] \in {"rep_push", "rep_test", "rep_store", "rep_uipi", "req_count"})
  <2>1. SendNum - mute_send_num = Len(req_items) + req_num + a /\ a \in Nat
    BY <1>0 DEF CountInv, One
  <2> HIDE DEF a
  <2>2. SendNum - mute_send_num' = Len(req_items') + req_num + a
    <3>1. SendNum \in Nat /\ mute_send_num \in Nat /\ req_num \in Nat  BY CountFacts
    <3>2. mute_send_num' = mute_send_num - 1  BY <1>2
    <3> QED  BY <1>4, <2>1, <3>1, <3>2
  <2> QED  BY <1>0, <1>2, <1>3, <2>2 DEF CountInv, a
<1>10. WakesInv'
  <2>1. /\ pc[Client] # "call_uipi" /\ pc'[Client] # "call_uipi" /\ pc'[Client] # "call_store"
        /\ pc[Client] \notin Receiving /\ pc'[Client] \notin Receiving
        /\ pc'[Client] \notin {"none", "wait_args", "register"}
    BY <1>0, <1>3 DEF Receiving
  <2> QED  BY <1>0, <1>2, <1>3, <2>1 DEF WakesInv
<1>11. OneTokenPerCall'
  <2> SUFFICES ASSUME NEW d \in Callers
               PROVE  Occurrences(req_items', d) + Occurrences(res_items', d)
                        + (IF item' = d THEN 1 ELSE 0) + (IF immediate'[d] = d THEN 1 ELSE 0)
                        = IF Outstanding(d)' THEN 1 ELSE 0
    BY <1>6 DEF OneTokenPerCall
  <2>1. Occurrences(req_items', d) = Occurrences(req_items, d) + (IF d = c THEN 1 ELSE 0)
    BY <1>0, <1>1, <1>2, OccurrencesAppend DEF TypeOK
  <2>2. CASE d = c
    <3>1. Outstanding(d)'  BY <1>2, <1>3, <2>2 DEF Outstanding
    <3>2. immediate'[d] # d  BY <1>5, <2>2, Sized
    <3> QED  BY <1>1, <1>2, <2>1, <2>2, <3>1, <3>2
  <2>3. CASE d # c
    <3>1. Outstanding(d)' <=> Outstanding(d)  BY <1>0, <1>2, <1>3, <2>3 DEF Outstanding
    <3>2. immediate'[d] = immediate[d]  BY <1>5, <2>3
    <3>3. Occurrences(req_items', d) = Occurrences(req_items, d)
      BY <2>1, <2>3, TokenFacts
    <3> QED  BY <1>0, <1>2, <3>1, <3>2, <3>3 DEF OneTokenPerCall
  <2> QED  BY <2>2, <2>3
<1>12. ValueInv'
  BY <1>0, <1>2, <1>3, <1>5 DEF ValueInv, TypeOK
<1>13. CoreInv'
  BY <1>0, <1>2, <1>3 DEF CoreInv, Other, Parked
<1>14. (ServerWakes' <=> ServerWakes) /\ (ClientWakes' <=> ClientWakes)
  BY <1>0, <1>2, <1>3 DEF ServerWakes, ClientWakes
<1>15. StatusMeansWake'
  BY <1>0, <1>2, <1>3, <1>14 DEF StatusMeansWake
<1>16. NoStrandedItem'
  BY <1>0, <1>2, <1>3, <1>14 DEF NoStrandedItem
<1>17. ex' = [t \in Threads |-> ex'[t]]  BY <1>0, <1>2
<1> QED  BY <1>6, <1>7, <1>8, <1>9, <1>10, <1>11, <1>12, <1>13, <1>15, <1>16, <1>17 DEF IInv

(* A caller with no call left to make ends. *)
LEMMA EndStep ==
    ASSUME Sizes, IInv, Call, mute_send_num = 0, UNCHANGED <<setup, preemptive>>
    PROVE  IInv'
<1> DEFINE x == ex[Client]
           c == x.current
           e == RemoveTask(x, c)
<1>0. /\ TypeOK /\ SetupInv /\ RunInv /\ WakesInv /\ CountInv /\ OneTokenPerCall /\ ValueInv
      /\ CoreInv /\ StatusMeansWake /\ NoStrandedItem /\ ex = [t \in Threads |-> ex[t]]
      /\ Client # Server /\ pc[Client] = "call" /\ cur = Client /\ Shape(x, 0, Callers)
  BY DEF IInv, RunInv, Call, At, Client, Server
<1>1. /\ c \in Callers /\ c \in TaskIds /\ c \in Live(x) /\ c \notin Queued(x, 1)
      /\ c \in awaiting => immediate[c] # NoItem
      /\ Occurrences(req_items, c) = 0 /\ Occurrences(res_items, c) = 0 /\ item # c
  BY <1>0, CallerFree
<1>2. /\ UNCHANGED <<cur, args, lock, registered, preemptive, req_items, res_items,
                     recv_req_status, recv_reply_status, uipi, reply_count, item, req_num,
                     mute_send_num>>
      /\ immediate' = [immediate EXCEPT ![c] = NoItem]
      /\ awaiting' = awaiting \ {c}
      /\ ex' = [ex EXCEPT ![Client] = e]
      /\ Goto(Client, "fetch")
  BY <1>0, <1>1, CountFacts DEF Call, End, setup, servervars
<1>3. /\ pc' \in [Threads -> Labels] /\ pc'[Client] = "fetch" /\ pc'[Server] = pc[Server]
  BY <1>0, <1>2, ClientGoes DEF Labels
<1>4. /\ Shape(e, 0, Callers) /\ ExecutorType(e) /\ Live(e) = Live(x) \ {c}
      /\ e.ready = x.ready /\ e.delay = x.delay /\ e.current = c
      /\ Queued(e, 0) = Queued(x, 0) /\ Queued(e, 1) = Queued(x, 1)
      /\ Wakes(e, 0) = Wakes(x, 0)
  <2>1. Kind(0, Callers)  BY DEF Kind
  <2>2. /\ Shape(e, 0, Callers) /\ Live(e) = Live(x) \ {c}
        /\ e.ready = x.ready /\ e.delay = x.delay /\ e.current = x.current
    BY <1>0, <1>1, <2>1, ShapeRemove
  <2> HIDE DEF e
  <2> QED  BY <2>2 DEF Shape, Queued, Wakes
<1> HIDE DEF e
<1>5. /\ ex'[Client] = e /\ ex'[Server] = ex[Server] /\ ex' = [t \in Threads |-> ex'[t]]
  BY <1>0, <1>2, ClientRuns
<1>6. /\ immediate' \in [TaskIds -> Callers \cup {NoItem}]
      /\ immediate'[c] = NoItem /\ \A d \in Callers \ {c} : immediate'[d] = immediate[d]
  BY <1>0, <1>1, <1>2, Sized DEF TypeOK
<1>7. TypeOK'
  <2>1. \A t \in Threads : ExecutorType(ex'[t])  BY <1>0, <1>4, <1>5 DEF TypeOK, Threads
  <2> QED  BY <1>0, <1>2, <1>3, <1>6, <2>1 DEF TypeOK
<1>8. SetupInv'
  BY <1>0, <1>2, <1>3, <1>5 DEF SetupInv, ClientSetup, Calling, Looping
<1>9. RunInv'
  BY <1>0, <1>1, <1>2, <1>3, <1>4, <1>5, Sized DEF RunInv, Receiving, Calling
<1>10. CountInv'  BY <1>0, <1>2, <1>3 DEF CountInv
<1>11. WakesInv'
  <2>1. /\ pc[Client] # "call_uipi" /\ pc'[Client] # "call_uipi" /\ pc'[Client] # "call_store"
        /\ pc[Client] \notin Receiving /\ pc'[Client] \notin Receiving
        /\ pc'[Client] \notin {"none", "wait_args", "register"}
    BY <1>0, <1>3 DEF Receiving
  <2> QED  BY <1>0, <1>2, <1>3, <1>4, <1>5, <2>1 DEF WakesInv
<1>12. OneTokenPerCall'
  <2> SUFFICES ASSUME NEW d \in Callers
               PROVE  Occurrences(req_items', d) + Occurrences(res_items', d)
                        + (IF item' = d THEN 1 ELSE 0) + (IF immediate'[d] = d THEN 1 ELSE 0)
                        = IF Outstanding(d)' THEN 1 ELSE 0
    BY <1>7 DEF OneTokenPerCall
  <2>1. CASE d = c
    <3>1. ~Outstanding(d)'  BY <1>2, <1>3, <2>1 DEF Outstanding
    <3>2. immediate'[d] # d  BY <1>6, <2>1, Sized
    <3> QED  BY <1>1, <1>2, <2>1, <3>1, <3>2
  <2>2. CASE d # c
    <3>1. Outstanding(d)' <=> Outstanding(d)  BY <1>0, <1>2, <1>3, <2>2 DEF Outstanding
    <3>2. immediate'[d] = immediate[d]  BY <1>6, <2>2
    <3> QED  BY <1>0, <1>2, <3>1, <3>2 DEF OneTokenPerCall
  <2> QED  BY <2>1, <2>2
<1>13. ValueInv'
  BY <1>0, <1>2, <1>3, <1>4, <1>5, <1>6 DEF ValueInv, TypeOK
<1>14. CoreInv'
  BY <1>0, <1>2, <1>3 DEF CoreInv, Other, Parked
<1>15. (ServerWakes' <=> ServerWakes) /\ (ClientWakes' <=> ClientWakes)
  BY <1>0, <1>2, <1>3, <1>4, <1>5 DEF ServerWakes, ClientWakes
<1>16. StatusMeansWake'
  BY <1>0, <1>2, <1>3, <1>15 DEF StatusMeansWake
<1>17. NoStrandedItem'
  BY <1>0, <1>2, <1>3, <1>15 DEF NoStrandedItem
<1> QED  BY <1>5, <1>7, <1>8, <1>9, <1>10, <1>11, <1>12, <1>13, <1>14, <1>16, <1>17 DEF IInv

-----------------------------------------------------------------------------
(* Flags and interrupts. *)

(* The parts of the invariant that a step on flags, interrupts and places  *)
(* keeps as long as every call stays outstanding.                          *)
LEMMA FlagSteps ==
    ASSUME IInv,
           UNCHANGED <<ex, cur, args, lock, registered, preemptive, req_items, res_items,
                       immediate, mute_send_num, reply_count, item, req_num>>,
           pc' \in [Threads -> Labels],
           \/ pc'[Server] = pc[Server]
           \/ pc[Server] \in Serving /\ pc'[Server] \in Serving \cup {"fetch"},
           \/ pc'[Client] = pc[Client]
           \/ /\ pc[Client] \in Receiving /\ pc'[Client] \in Receiving \cup {"fetch"}
           \/ /\ pc[Client] \in Calling /\ pc'[Client] \in Calling \cup {"fetch"},
           pc'[Server] \in {"rep_push", "rep_test", "rep_store", "rep_uipi", "req_count"}
               <=> pc[Server] \in {"rep_push", "rep_test", "rep_store", "rep_uipi", "req_count"},
           pc'[Server] \in {"rep_test", "rep_store", "rep_uipi", "req_count"}
               <=> pc[Server] \in {"rep_test", "rep_store", "rep_uipi", "req_count"},
           pc'[Server] = "rep_push" <=> pc[Server] = "rep_push",
           recv_req_status' \in BOOLEAN, recv_reply_status' \in BOOLEAN,
           uipi' \in [Threads -> BOOLEAN],
           \/ awaiting' = awaiting
           \/ /\ awaiting' = awaiting \cup {ex[Client].current}
              /\ pc[Client] \in Calling /\ pc'[Client] # "call",
           pc[Client] \in ClientSetup => uipi' = uipi,
           \A c \in Callers : Outstanding(c)' <=> Outstanding(c),
           pc'[Client] = "call" => pc[Client] = "call",
           WakesInv', CoreInv', StatusMeansWake', NoStrandedItem'
    PROVE  IInv'
<1>0. /\ TypeOK /\ SetupInv /\ RunInv /\ CountInv /\ OneTokenPerCall /\ ValueInv
      /\ ex = [t \in Threads |-> ex[t]]
  BY DEF IInv
<1>1. TypeOK'
  <2>1. awaiting' \subseteq Callers  BY <1>0 DEF TypeOK, RunInv
  <2> QED  BY <1>0, <2>1 DEF TypeOK
<1>2. SetupInv'
  BY <1>0 DEF SetupInv, ServerSetup, ClientSetup, Serving, Receiving, Calling, Looping
<1>3. RunInv'
  BY <1>0 DEF RunInv, Serving, Receiving, Calling
<1>4. CountInv'  BY <1>0 DEF CountInv
<1>5. OneTokenPerCall'  BY <1>0, <1>1 DEF OneTokenPerCall
<1>6. ValueInv'  BY <1>0 DEF ValueInv, RunInv
<1> QED  BY <1>0, <1>1, <1>2, <1>3, <1>4, <1>5, <1>6 DEF IInv

LEMMA CallTestStep ==
    ASSUME IInv, CallTest, UNCHANGED <<setup, preemptive>>
    PROVE  IInv'
<1> DEFINE c == ex[Client].current
<1>0. /\ TypeOK /\ RunInv /\ WakesInv /\ CoreInv /\ StatusMeansWake /\ NoStrandedItem
      /\ Client # Server /\ pc[Client] = "call_test" /\ cur = Client
      /\ UNCHANGED <<ex, cur, args, lock, registered, preemptive, req_items, res_items,
                     recv_req_status, recv_reply_status, uipi, immediate, mute_send_num,
                     reply_count, item, req_num>>
  BY DEF IInv, CallTest, At, setup, shared, servervars, Client, Server
<1>1. /\ pc' \in [Threads -> Labels] /\ pc'[Server] = pc[Server]
      /\ \/ recv_req_status /\ pc'[Client] = "fetch" /\ awaiting' = awaiting \cup {c}
         \/ ~recv_req_status /\ pc'[Client] = "call_store" /\ awaiting' = awaiting
  <2>1. CASE recv_req_status
    <3>1. Goto(Client, "fetch") /\ awaiting' = awaiting \cup {c}  BY <2>1 DEF CallTest, Suspend
    <3> QED  BY <1>0, <2>1, <3>1, ClientGoes DEF Labels
  <2>2. CASE ~recv_req_status
    <3>1. Goto(Client, "call_store") /\ awaiting' = awaiting  BY <2>2 DEF CallTest
    <3> QED  BY <1>0, <2>2, <3>1, ClientGoes DEF Labels
  <2> QED  BY <2>1, <2>2
<1>2. WakesInv'
  <2>1. /\ pc[Client] # "call_uipi" /\ pc'[Client] # "call_uipi"
        /\ pc[Client] \notin Receiving /\ pc'[Client] \notin Receiving
        /\ pc'[Client] \notin {"none", "wait_args", "register"}
    BY <1>0, <1>1 DEF Receiving
  <2> QED  BY <1>0, <1>1, <2>1 DEF WakesInv
<1>3. CoreInv'  BY <1>0, <1>1 DEF CoreInv, Other, Parked
<1>4. /\ ServerWakes => ServerWakes'
      /\ ClientWakes' <=> ClientWakes
  BY <1>0, <1>1 DEF ServerWakes, ClientWakes
<1>5. StatusMeansWake'  BY <1>0, <1>1, <1>4 DEF StatusMeansWake
<1>6. NoStrandedItem'
  <2>1. ASSUME ~preemptive, req_items # <<>>  PROVE ServerWakes'
    <3>1. CASE recv_req_status
      <4>1. req_num < SendNum  BY <2>1, CountFacts
      <4>2. pc[Server] # "req_idle"  BY <1>0, <2>1 DEF CoreInv, Other, Parked
      <4> QED  BY <1>0, <1>4, <3>1, <4>1, <4>2 DEF StatusMeansWake
    <3>2. CASE ~recv_req_status  BY <1>1, <3>2 DEF ServerWakes
    <3> QED  BY <3>1, <3>2
  <2> QED  BY <1>0, <1>1, <1>4, <2>1 DEF NoStrandedItem
<1>7. \A d \in Callers : Outstanding(d)' <=> Outstanding(d)
  BY <1>0, <1>1 DEF Outstanding
<1> QED  BY <1>0, <1>1, <1>2, <1>3, <1>5, <1>6, <1>7, FlagSteps DEF Calling, TypeOK

LEMMA CallStoreStep ==
    ASSUME IInv, CallStore, UNCHANGED <<setup, preemptive>>
    PROVE  IInv'
<1>0. /\ TypeOK /\ RunInv /\ WakesInv /\ CoreInv /\ StatusMeansWake /\ NoStrandedItem
      /\ Client # Server /\ pc[Client] = "call_store" /\ cur = Client
      /\ UNCHANGED <<ex, cur, args, lock, registered, preemptive, req_items, res_items,
                     recv_reply_status, uipi, immediate, awaiting, mute_send_num,
                     reply_count, item, req_num>>
      /\ recv_req_status' = TRUE /\ Goto(Client, "call_uipi")
  BY DEF IInv, CallStore, At, setup, shared, clientvars, servervars, Client, Server
<1>1. pc' \in [Threads -> Labels] /\ pc'[Server] = pc[Server] /\ pc'[Client] = "call_uipi"
  BY <1>0, ClientGoes DEF Labels
<1>2. WakesInv'
  <2> DEFINE w == Wakes(ex[Server], 1)
             a == One(uipi[Server])
             c == One(pc[Server] \in Serving)
  <2>1. w + a + One(pc[Client] = "call_uipi") + c <= 1 + One(recv_req_status)
    BY <1>0 DEF WakesInv
  <2>2. One(pc[Client] = "call_uipi") = 0 /\ One(recv_req_status) = 0
    BY <1>0 DEF WakesInv, One
  <2>3. One(pc'[Client] = "call_uipi") = 1 /\ One(recv_req_status') = 1  BY <1>0, <1>1 DEF One
  <2>4. w \in Nat  BY <1>0, ShapeQueues DEF RunInv, Kind
  <2>5. a \in Nat /\ c \in Nat  BY DEF One
  <2> HIDE DEF w, a, c
  <2>6. w + a + One(pc'[Client] = "call_uipi") + c <= 1 + One(recv_req_status')
    BY <2>1, <2>2, <2>3, <2>4, <2>5
  <2>7. Wakes(ex'[Server], 1) + One(uipi'[Server]) + One(pc'[Client] = "call_uipi")
          + One(pc'[Server] \in Serving) <= 1 + One(recv_req_status')
    BY <1>0, <1>1, <2>6 DEF w, a, c
  <2>8. /\ pc[Client] \notin Receiving /\ pc'[Client] \notin Receiving
        /\ pc'[Client] \notin {"none", "wait_args", "register"} /\ pc'[Client] # "call_store"
    BY <1>0, <1>1 DEF Receiving
  <2>9. Wakes(ex'[Client], 0) + One(uipi'[Client]) + One(pc'[Server] = "rep_uipi")
          + One(pc'[Client] \in Receiving) <= 1 + One(recv_reply_status')
    <3>1. One(pc[Client] \in Receiving) = One(pc'[Client] \in Receiving)  BY <2>8 DEF One
    <3> QED  BY <1>0, <1>1, <3>1 DEF WakesInv
  <2>10. pc'[Server] = "rep_store" => ~recv_reply_status'  BY <1>0, <1>1 DEF WakesInv
  <2> QED  BY <2>7, <2>8, <2>9, <2>10 DEF WakesInv
<1>3. CoreInv'  BY <1>0, <1>1 DEF CoreInv, Other, Parked
<1>4. ServerWakes' /\ (ClientWakes' <=> ClientWakes)
  BY <1>0, <1>1 DEF ServerWakes, ClientWakes
<1>5. StatusMeansWake'  BY <1>0, <1>1, <1>4 DEF StatusMeansWake
<1>6. NoStrandedItem'  BY <1>0, <1>1, <1>4 DEF NoStrandedItem
<1>7. \A d \in Callers : Outstanding(d)' <=> Outstanding(d)
  BY <1>0, <1>1 DEF Outstanding
<1> QED  BY <1>0, <1>1, <1>2, <1>3, <1>5, <1>6, <1>7, FlagSteps DEF Calling, TypeOK

LEMMA CallUipiStep ==
    ASSUME IInv, CallUipi, UNCHANGED <<setup, preemptive>>
    PROVE  IInv'
<1> DEFINE k == ex[Client].current
<1>0. /\ TypeOK /\ RunInv /\ WakesInv /\ CoreInv /\ StatusMeansWake /\ NoStrandedItem
      /\ Client # Server /\ pc[Client] = "call_uipi" /\ cur = Client
      /\ UNCHANGED <<ex, cur, args, lock, registered, preemptive, req_items, res_items,
                     recv_req_status, recv_reply_status, immediate, mute_send_num,
                     reply_count, item, req_num>>
      /\ uipi' = [uipi EXCEPT ![Server] = TRUE] /\ Goto(Client, "fetch")
      /\ awaiting' = awaiting \cup {k}
  BY DEF IInv, CallUipi, Suspend, At, setup, shared, servervars, Client, Server
<1>1. pc' \in [Threads -> Labels] /\ pc'[Server] = pc[Server] /\ pc'[Client] = "fetch"
  BY <1>0, ClientGoes DEF Labels
<1>2. uipi' \in [Threads -> BOOLEAN] /\ uipi'[Server] /\ uipi'[Client] = uipi[Client]
  BY <1>0 DEF TypeOK, Threads
<1>3. WakesInv'
  <2> DEFINE w == Wakes(ex[Server], 1)
             a == One(uipi[Server])
             c == One(pc[Server] \in Serving)
             d == One(recv_req_status)
  <2>1. w + a + One(pc[Client] = "call_uipi") + c <= 1 + d  BY <1>0 DEF WakesInv
  <2>2. One(pc[Client] = "call_uipi") = 1  BY <1>0 DEF One
  <2>3. One(pc'[Client] = "call_uipi") = 0 /\ One(uipi'[Server]) = 1  BY <1>1, <1>2 DEF One
  <2>4. w \in Nat  BY <1>0, ShapeQueues DEF RunInv, Kind
  <2>5. a \in Nat /\ c \in Nat /\ d \in Nat  BY DEF One
  <2> HIDE DEF w, a, c, d
  <2>6. w + One(uipi'[Server]) + One(pc'[Client] = "call_uipi") + c <= 1 + d
    BY <2>1, <2>2, <2>3, <2>4, <2>5
  <2>7. Wakes(ex'[Server], 1) + One(uipi'[Server]) + One(pc'[Client] = "call_uipi")
          + One(pc'[Server] \in Serving) <= 1 + One(recv_req_status')
    BY <1>0, <1>1, <2>6 DEF w, c, d
  <2>8. /\ pc[Client] \notin Receiving /\ pc'[Client] \notin Receiving
        /\ pc'[Client] \notin {"none", "wait_args", "register"} /\ pc'[Client] # "call_store"
    BY <1>0, <1>1 DEF Receiving
  <2>9. Wakes(ex'[Client], 0) + One(uipi'[Client]) + One(pc'[Server] = "rep_uipi")
          + One(pc'[Client] \in Receiving) <= 1 + One(recv_reply_status')
    <3>1. One(pc[Client] \in Receiving) = One(pc'[Client] \in Receiving)  BY <2>8 DEF One
    <3> QED  BY <1>0, <1>1, <1>2, <3>1 DEF WakesInv
  <2>10. pc'[Server] = "rep_store" => ~recv_reply_status'  BY <1>0, <1>1 DEF WakesInv
  <2> QED  BY <2>7, <2>8, <2>9, <2>10 DEF WakesInv
<1>4. CoreInv'  BY <1>0, <1>1 DEF CoreInv, Other, Parked
<1>5. ServerWakes' /\ (ClientWakes' <=> ClientWakes)
  BY <1>0, <1>1, <1>2 DEF ServerWakes, ClientWakes
<1>6. StatusMeansWake'  BY <1>0, <1>1, <1>5 DEF StatusMeansWake
<1>7. NoStrandedItem'  BY <1>0, <1>1, <1>5 DEF NoStrandedItem
<1>8. \A d \in Callers : Outstanding(d)' <=> Outstanding(d)
  BY <1>0, <1>1 DEF Outstanding
<1> QED  BY <1>0, <1>1, <1>2, <1>3, <1>4, <1>6, <1>7, <1>8, FlagSteps
              DEF Calling, ClientSetup, TypeOK

(* A receiver finds its ring empty, and then clears its flag. *)
LEMMA ReplyEmptyStep ==
    ASSUME IInv, ReplyPop, res_items = <<>>, UNCHANGED <<setup, preemptive>>
    PROVE  IInv'
<1>0. /\ TypeOK /\ RunInv /\ WakesInv /\ CoreInv /\ StatusMeansWake /\ NoStrandedItem
      /\ Client # Server /\ pc[Client] = "reply_pop" /\ cur = Client
      /\ UNCHANGED <<ex, cur, args, lock, registered, preemptive, req_items, res_items,
                     recv_req_status, recv_reply_status, uipi, immediate, awaiting,
                     mute_send_num, reply_count, item, req_num>>
      /\ Goto(Client, "reply_idle")
  BY DEF IInv, ReplyPop, At, setup, servervars, Client, Server
<1>1. pc' \in [Threads -> Labels] /\ pc'[Server] = pc[Server] /\ pc'[Client] = "reply_idle"
  BY <1>0, ClientGoes DEF Labels
<1>2. WakesInv'
  <2>1. /\ pc[Client] # "call_uipi" /\ pc'[Client] # "call_uipi"
        /\ pc[Client] \in Receiving /\ pc'[Client] \in Receiving
        /\ pc'[Client] \notin {"none", "wait_args", "register"} /\ pc'[Client] # "call_store"
    BY <1>0, <1>1 DEF Receiving
  <2> QED  BY <1>0, <1>1, <2>1 DEF WakesInv
<1>3. CoreInv'  BY <1>0, <1>1 DEF CoreInv, Other, Parked
<1>4. ServerWakes' <=> ServerWakes  BY <1>0, <1>1 DEF ServerWakes
<1>5. StatusMeansWake'  BY <1>0, <1>1, <1>4 DEF StatusMeansWake
<1>6. NoStrandedItem'  BY <1>0, <1>1, <1>4 DEF NoStrandedItem
<1>7. \A d \in Callers : Outstanding(d)' <=> Outstanding(d)
  BY <1>0, <1>1 DEF Outstanding
<1> QED  BY <1>0, <1>1, <1>2, <1>3, <1>5, <1>6, <1>7, FlagSteps DEF Receiving, TypeOK

LEMMA ReplyIdleStep ==
    ASSUME IInv, ReplyIdle, UNCHANGED <<setup, preemptive>>
    PROVE  IInv'
<1>0. /\ TypeOK /\ RunInv /\ WakesInv /\ CoreInv /\ StatusMeansWake /\ NoStrandedItem
      /\ Client # Server /\ pc[Client] = "reply_idle" /\ cur = Client
      /\ UNCHANGED <<ex, cur, args, lock, registered, preemptive, req_items, res_items,
                     recv_req_status, uipi, immediate, awaiting, mute_send_num,
                     reply_count, item, req_num>>
      /\ recv_reply_status' = FALSE /\ Goto(Client, "fetch")
  BY DEF IInv, ReplyIdle, At, setup, shared, clientvars, servervars, Client, Server
<1>1. pc' \in [Threads -> Labels] /\ pc'[Server] = pc[Server] /\ pc'[Client] = "fetch"
  BY <1>0, ClientGoes DEF Labels
<1>2. WakesInv'
  <2> DEFINE w == Wakes(ex[Client], 0)
             a == One(uipi[Client])
             b == One(pc[Server] = "rep_uipi")
  <2>1. w + a + b + One(pc[Client] \in Receiving) <= 1 + One(recv_reply_status)
    BY <1>0 DEF WakesInv
  <2>2. One(pc[Client] \in Receiving) = 1 /\ One(recv_reply_status) \in 0 .. 1
    BY <1>0 DEF Receiving, One
  <2>3. One(pc'[Client] \in Receiving) = 0 /\ One(recv_reply_status') = 0
    BY <1>0, <1>1 DEF Receiving, One
  <2>4. w \in Nat  BY <1>0, ShapeQueues DEF RunInv, Kind
  <2>5. a \in Nat /\ b \in Nat  BY DEF One
  <2> HIDE DEF w, a, b
  <2>6. w + a + b + One(pc'[Client] \in Receiving) <= 1 + One(recv_reply_status')
    BY <2>1, <2>2, <2>3, <2>4, <2>5
  <2>7. Wakes(ex'[Client], 0) + One(uipi'[Client]) + One(pc'[Server] = "rep_uipi")
          + One(pc'[Client] \in Receiving) <= 1 + One(recv_reply_status')
    BY <1>0, <1>1, <2>6 DEF w, a, b
  <2>8. pc[Client] # "call_uipi" /\ pc'[Client] # "call_uipi" /\ pc'[Client] # "call_store"
    BY <1>0, <1>1
  <2>9. Wakes(ex'[Server], 1) + One(uipi'[Server]) + One(pc'[Client] = "call_uipi")
          + One(pc'[Server] \in Serving) <= 1 + One(recv_req_status')
    <3>1. One(pc[Client] = "call_uipi") = One(pc'[Client] = "call_uipi")  BY <2>8 DEF One
    <3> QED  BY <1>0, <1>1, <3>1 DEF WakesInv
  <2>10. ~recv_reply_status'  BY <1>0
  <2> QED  BY <2>7, <2>8, <2>9, <2>10 DEF WakesInv
<1>3. CoreInv'  BY <1>0, <1>1 DEF CoreInv, Other, Parked
<1>4. ServerWakes' <=> ServerWakes  BY <1>0, <1>1 DEF ServerWakes
<1>5. StatusMeansWake'  BY <1>0, <1>1, <1>4 DEF StatusMeansWake
<1>6. NoStrandedItem'  BY <1>0, <1>1, <1>4 DEF NoStrandedItem, CoreInv
<1>7. \A d \in Callers : Outstanding(d)' <=> Outstanding(d)
  BY <1>0, <1>1 DEF Outstanding
<1> QED  BY <1>0, <1>1, <1>2, <1>3, <1>5, <1>6, <1>7, FlagSteps DEF Receiving, TypeOK

LEMMA ReqEmptyStep ==
    ASSUME IInv, ReqPop, req_items = <<>>, UNCHANGED <<setup, preemptive>>
    PROVE  IInv'
<1>0. /\ TypeOK /\ RunInv /\ WakesInv /\ CoreInv /\ StatusMeansWake /\ NoStrandedItem
      /\ Client # Server /\ pc[Server] = "req_pop" /\ cur = Server
      /\ UNCHANGED <<ex, cur, args, lock, registered, preemptive, req_items, res_items,
                     recv_req_status, recv_reply_status, uipi, immediate, awaiting,
                     mute_send_num, reply_count, item, req_num>>
      /\ Goto(Server, "req_idle")
  BY DEF IInv, ReqPop, At, setup, clientvars, Client, Server
<1>1. pc' \in [Threads -> Labels] /\ pc'[Client] = pc[Client] /\ pc'[Server] = "req_idle"
  BY <1>0, ServerGoes DEF Labels
<1>2. WakesInv'
  <2>1. /\ pc[Server] # "rep_uipi" /\ pc'[Server] # "rep_uipi" /\ pc'[Server] # "rep_store"
        /\ pc[Server] \in Serving /\ pc'[Server] \in Serving
    BY <1>0, <1>1 DEF Serving
  <2> QED  BY <1>0, <1>1, <2>1 DEF WakesInv
<1>3. CoreInv'  BY <1>0, <1>1 DEF CoreInv, Other, Parked
<1>4. ClientWakes' <=> ClientWakes  BY <1>0, <1>1 DEF ClientWakes
<1>5. StatusMeansWake'  BY <1>0, <1>1, <1>4 DEF StatusMeansWake
<1>6. NoStrandedItem'  BY <1>0, <1>1, <1>4 DEF NoStrandedItem
<1>7. \A d \in Callers : Outstanding(d)' <=> Outstanding(d)
  BY <1>0, <1>1 DEF Outstanding
<1> QED  BY <1>0, <1>1, <1>2, <1>3, <1>5, <1>6, <1>7, FlagSteps DEF Serving, TypeOK

LEMMA ReqIdleStep ==
    ASSUME IInv, ReqIdle, UNCHANGED <<setup, preemptive>>
    PROVE  IInv'
<1>0. /\ TypeOK /\ RunInv /\ WakesInv /\ CoreInv /\ StatusMeansWake /\ NoStrandedItem
      /\ Client # Server /\ pc[Server] = "req_idle" /\ cur = Server
      /\ UNCHANGED <<ex, cur, args, lock, registered, preemptive, req_items, res_items,
                     recv_reply_status, uipi, immediate, awaiting, mute_send_num,
                     reply_count, item, req_num>>
      /\ recv_req_status' = FALSE /\ Goto(Server, "fetch")
  BY DEF IInv, ReqIdle, At, setup, shared, clientvars, servervars, Client, Server
<1>1. pc' \in [Threads -> Labels] /\ pc'[Client] = pc[Client] /\ pc'[Server] = "fetch"
  BY <1>0, ServerGoes DEF Labels
<1>2. WakesInv'
  <2> DEFINE w == Wakes(ex[Server], 1)
             a == One(uipi[Server])
             b == One(pc[Client] = "call_uipi")
  <2>1. w + a + b + One(pc[Server] \in Serving) <= 1 + One(recv_req_status)
    BY <1>0 DEF WakesInv
  <2>2. One(pc[Server] \in Serving) = 1 /\ One(recv_req_status) \in 0 .. 1
    BY <1>0 DEF Serving, One
  <2>3. One(pc'[Server] \in Serving) = 0 /\ One(recv_req_status') = 0
    BY <1>0, <1>1 DEF Serving, One
  <2>4. w \in Nat  BY <1>0, ShapeQueues DEF RunInv, Kind
  <2>5. a \in Nat /\ b \in Nat  BY DEF One
  <2> HIDE DEF w, a, b
  <2>6. w + a + b + One(pc'[Server] \in Serving) <= 1 + One(recv_req_status')
    BY <2>1, <2>2, <2>3, <2>4, <2>5
  <2>7. Wakes(ex'[Server], 1) + One(uipi'[Server]) + One(pc'[Client] = "call_uipi")
          + One(pc'[Server] \in Serving) <= 1 + One(recv_req_status')
    BY <1>0, <1>1, <2>6 DEF w, a, b
  <2>8. pc[Server] # "rep_uipi" /\ pc'[Server] # "rep_uipi" /\ pc'[Server] # "rep_store"
    BY <1>0, <1>1
  <2>9. Wakes(ex'[Client], 0) + One(uipi'[Client]) + One(pc'[Server] = "rep_uipi")
          + One(pc'[Client] \in Receiving) <= 1 + One(recv_reply_status')
    <3>1. One(pc[Server] = "rep_uipi") = One(pc'[Server] = "rep_uipi")  BY <2>8 DEF One
    <3> QED  BY <1>0, <1>1, <3>1 DEF WakesInv
  <2>10. /\ ~recv_req_status'
         /\ pc'[Client] \in {"none", "wait_args", "register"} => ~recv_reply_status'
    BY <1>0, <1>1 DEF WakesInv
  <2> QED  BY <2>7, <2>8, <2>9, <2>10 DEF WakesInv
<1>3. CoreInv'  BY <1>0, <1>1 DEF CoreInv, Other, Parked
<1>4. ClientWakes' <=> ClientWakes  BY <1>0, <1>1 DEF ClientWakes
<1>5. StatusMeansWake'  BY <1>0, <1>1, <1>4 DEF StatusMeansWake
<1>6. NoStrandedItem'  BY <1>0, <1>1, <1>4 DEF NoStrandedItem, CoreInv
<1>7. \A d \in Callers : Outstanding(d)' <=> Outstanding(d)
  BY <1>0, <1>1 DEF Outstanding
<1> QED  BY <1>0, <1>1, <1>2, <1>3, <1>5, <1>6, <1>7, FlagSteps DEF Serving, TypeOK

(* The server looks at the client's flag, sets it and sends the interrupt. *)
LEMMA RepTestStep ==
    ASSUME IInv, RepTest, UNCHANGED <<setup, preemptive>>
    PROVE  IInv'
<1>0. /\ TypeOK /\ RunInv /\ WakesInv /\ CoreInv /\ StatusMeansWake /\ NoStrandedItem
      /\ Client # Server /\ pc[Server] = "rep_test" /\ cur = Server
      /\ UNCHANGED <<ex, cur, args, lock, registered, preemptive, req_items, res_items,
                     recv_req_status, recv_reply_status, uipi, immediate, awaiting,
                     mute_send_num, reply_count, item, req_num>>
      /\ Goto(Server, IF recv_reply_status THEN "req_count" ELSE "rep_store")
  BY DEF IInv, RepTest, At, setup, shared, clientvars, servervars, Client, Server
<1>1. /\ pc' \in [Threads -> Labels] /\ pc'[Client] = pc[Client]
      /\ \/ recv_reply_status /\ pc'[Server] = "req_count"
         \/ ~recv_reply_status /\ pc'[Server] = "rep_store"
  <2>1. CASE recv_reply_status
    <3>1. Goto(Server, "req_count")  BY <1>0, <2>1
    <3> QED  BY <1>0, <2>1, <3>1, ServerGoes DEF Labels
  <2>2. CASE ~recv_reply_status
    <3>1. Goto(Server, "rep_store")  BY <1>0, <2>2
    <3> QED  BY <1>0, <2>2, <3>1, ServerGoes DEF Labels
  <2> QED  BY <2>1, <2>2
<1>2. WakesInv'
  <2>1. /\ pc[Server] # "rep_uipi" /\ pc'[Server] # "rep_uipi"
        /\ pc[Server] \in Serving /\ pc'[Server] \in Serving
    BY <1>0, <1>1 DEF Serving
  <2> QED  BY <1>0, <1>1, <2>1 DEF WakesInv
<1>3. CoreInv'  BY <1>0, <1>1 DEF CoreInv, Other, Parked
<1>4. ServerWakes' /\ (ClientWakes => ClientWakes')
  BY <1>0, <1>1 DEF ServerWakes, ClientWakes
<1>5. StatusMeansWake'  BY <1>0, <1>1, <1>4 DEF StatusMeansWake
<1>6. NoStrandedItem'
  <2>1. ASSUME ~preemptive, res_items # <<>>  PROVE ClientWakes'
    <3>1. CASE recv_reply_status
      <4>1. reply_count < SendNum  BY <2>1, CountFacts
      <4>2. pc[Client] # "reply_idle"  BY <1>0, <2>1 DEF CoreInv, Other, Parked
      <4> QED  BY <1>0, <1>4, <3>1, <4>1, <4>2 DEF StatusMeansWake
    <3>2. CASE ~recv_reply_status  BY <1>1, <3>2 DEF ClientWakes
    <3> QED  BY <3>1, <3>2
  <2> QED  BY <1>0, <1>1, <1>4, <2>1 DEF NoStrandedItem
<1>7. \A d \in Callers : Outstanding(d)' <=> Outstanding(d)
  BY <1>0, <1>1 DEF Outstanding
<1> QED  BY <1>0, <1>1, <1>2, <1>3, <1>5, <1>6, <1>7, FlagSteps DEF Serving, TypeOK

LEMMA RepStoreStep ==
    ASSUME IInv, RepStore, UNCHANGED <<setup, preemptive>>
    PROVE  IInv'
<1>0. /\ TypeOK /\ RunInv /\ WakesInv /\ CoreInv /\ StatusMeansWake /\ NoStrandedItem
      /\ Client # Server /\ pc[Server] = "rep_store" /\ cur = Server
      /\ UNCHANGED <<ex, cur, args, lock, registered, preemptive, req_items, res_items,
                     recv_req_status, uipi, immediate, awaiting, mute_send_num,
                     reply_count, item, req_num>>
      /\ recv_reply_status' = TRUE /\ Goto(Server, "rep_uipi")
  BY DEF IInv, RepStore, At, setup, shared, clientvars, servervars, Client, Server
<1>1. pc' \in [Threads -> Labels] /\ pc'[Client] = pc[Client] /\ pc'[Server] = "rep_uipi"
  BY <1>0, ServerGoes DEF Labels
<1>2. pc[Client] \notin ClientSetup  BY <1>0, NothingSent
<1>3. WakesInv'
  <2> DEFINE w == Wakes(ex[Client], 0)
             a == One(uipi[Client])
             c == One(pc[Client] \in Receiving)
  <2>1. w + a + One(pc[Server] = "rep_uipi") + c <= 1 + One(recv_reply_status)
    BY <1>0 DEF WakesInv
  <2>2. One(pc[Server] = "rep_uipi") = 0 /\ One(recv_reply_status) = 0
    BY <1>0 DEF WakesInv, One
  <2>3. One(pc'[Server] = "rep_uipi") = 1 /\ One(recv_reply_status') = 1  BY <1>0, <1>1 DEF One
  <2>4. w \in Nat  BY <1>0, ShapeQueues DEF RunInv, Kind
  <2>5. a \in Nat /\ c \in Nat  BY DEF One
  <2> HIDE DEF w, a, c
  <2>6. w + a + One(pc'[Server] = "rep_uipi") + c <= 1 + One(recv_reply_status')
    BY <2>1, <2>2, <2>3, <2>4, <2>5
  <2>7. Wakes(ex'[Client], 0) + One(uipi'[Client]) + One(pc'[Server] = "rep_uipi")
          + One(pc'[Client] \in Receiving) <= 1 + One(recv_reply_status')
    BY <1>0, <1>1, <2>6 DEF w, a, c
  <2>8. pc[Server] \in Serving /\ pc'[Server] \in Serving /\ pc'[Server] # "rep_store"
        /\ pc'[Client] \notin {"none", "wait_args", "register"}
    BY <1>0, <1>1, <1>2 DEF Serving, ClientSetup
  <2>9. Wakes(ex'[Server], 1) + One(uipi'[Server]) + One(pc'[Client] = "call_uipi")
          + One(pc'[Server] \in Serving) <= 1 + One(recv_req_status')
    <3>1. One(pc[Server] \in Serving) = One(pc'[Server] \in Serving)  BY <2>8 DEF One
    <3> QED  BY <1>0, <1>1, <3>1 DEF WakesInv
  <2>10. pc'[Client] = "call_store" => ~recv_req_status'  BY <1>0, <1>1 DEF WakesInv
  <2> QED  BY <2>7, <2>8, <2>9, <2>10 DEF WakesInv
<1>4. CoreInv'  BY <1>0, <1>1 DEF CoreInv, Other, Parked
<1>5. ServerWakes' /\ ClientWakes'  BY <1>0, <1>1 DEF ServerWakes, ClientWakes
<1>6. StatusMeansWake'  BY <1>5 DEF StatusMeansWake
<1>7. NoStrandedItem'  BY <1>5 DEF NoStrandedItem
<1>8. \A d \in Callers : Outstanding(d)' <=> Outstanding(d)
  BY <1>0, <1>1 DEF Outstanding
<1> QED  BY <1>0, <1>1, <1>3, <1>4, <1>6, <1>7, <1>8, FlagSteps DEF Serving, TypeOK

LEMMA RepUipiStep ==
    ASSUME IInv, RepUipi, UNCHANGED <<setup, preemptive>>
    PROVE  IInv'
<1>0. /\ TypeOK /\ SetupInv /\ RunInv /\ WakesInv /\ CoreInv /\ StatusMeansWake /\ NoStrandedItem
      /\ Client # Server /\ pc[Server] = "rep_uipi" /\ cur = Server
      /\ UNCHANGED <<ex, cur, args, lock, registered, preemptive, req_items, res_items,
                     recv_req_status, recv_reply_status, immediate, awaiting, mute_send_num,
                     reply_count, item, req_num>>
      /\ uipi' = [uipi EXCEPT ![Client] = TRUE]
      /\ Goto(Server, IF "server_sender_id" \in args THEN "req_count" ELSE "panic")
  BY DEF IInv, RepUipi, At, setup, shared, clientvars, servervars, Client, Server
<1>1. "server_sender_id" \in args  BY <1>0 DEF SetupInv, ServerSetup
<1>2. pc' \in [Threads -> Labels] /\ pc'[Client] = pc[Client] /\ pc'[Server] = "req_count"
  BY <1>0, <1>1, ServerGoes DEF Labels
<1>3. pc[Client] \notin ClientSetup  BY <1>0, NothingSent
<1>4. uipi' \in [Threads -> BOOLEAN] /\ uipi'[Client] /\ uipi'[Server] = uipi[Server]
  BY <1>0 DEF TypeOK, Threads
<1>5. WakesInv'
  <2> DEFINE w == Wakes(ex[Client], 0)
             a == One(uipi[Client])
             c == One(pc[Client] \in Receiving)
             d == One(recv_reply_status)
  <2>1. w + a + One(pc[Server] = "rep_uipi") + c <= 1 + d  BY <1>0 DEF WakesInv
  <2>2. One(pc[Server] = "rep_uipi") = 1  BY <1>0 DEF One
  <2>3. One(pc'[Server] = "rep_uipi") = 0 /\ One(uipi'[Client]) = 1  BY <1>2, <1>4 DEF One
  <2>4. w \in Nat  BY <1>0, ShapeQueues DEF RunInv, Kind
  <2>5. a \in Nat /\ c \in Nat /\ d \in Nat  BY DEF One
  <2> HIDE DEF w, a, c, d
  <2>6. w + One(uipi'[Client]) + One(pc'[Server] = "rep_uipi") + c <= 1 + d
    BY <2>1, <2>2, <2>3, <2>4, <2>5
  <2>7. Wakes(ex'[Client], 0) + One(uipi'[Client]) + One(pc'[Server] = "rep_uipi")
          + One(pc'[Client] \in Receiving) <= 1 + One(recv_reply_status')
    BY <1>0, <1>2, <2>6 DEF w, c, d
  <2>8. pc[Server] \in Serving /\ pc'[Server] \in Serving /\ pc'[Server] # "rep_store"
        /\ pc'[Client] \notin {"none", "wait_args", "register"}
    BY <1>0, <1>2, <1>3 DEF Serving, ClientSetup
  <2>9. Wakes(ex'[Server], 1) + One(uipi'[Server]) + One(pc'[Client] = "call_uipi")
          + One(pc'[Server] \in Serving) <= 1 + One(recv_req_status')
    <3>1. One(pc[Server] \in Serving) = One(pc'[Server] \in Serving)  BY <2>8 DEF One
    <3> QED  BY <1>0, <1>2, <1>4, <3>1 DEF WakesInv
  <2>10. pc'[Client] = "call_store" => ~recv_req_status'  BY <1>0, <1>2 DEF WakesInv
  <2> QED  BY <2>7, <2>8, <2>9, <2>10 DEF WakesInv
<1>6. CoreInv'  BY <1>0, <1>2 DEF CoreInv, Other, Parked
<1>7. ServerWakes' /\ ClientWakes'  BY <1>2, <1>4 DEF ServerWakes, ClientWakes
<1>8. StatusMeansWake'  BY <1>7 DEF StatusMeansWake
<1>9. NoStrandedItem'  BY <1>7 DEF NoStrandedItem
<1>10. \A d \in Callers : Outstanding(d)' <=> Outstanding(d)
  BY <1>0, <1>2 DEF Outstanding
<1> QED  BY <1>0, <1>2, <1>3, <1>4, <1>5, <1>6, <1>8, <1>9, <1>10, FlagSteps DEF Serving, TypeOK

-----------------------------------------------------------------------------
(* Items taken and replies given. *)

(* The server takes a request. *)
LEMMA ReqPopStep ==
    ASSUME IInv, ReqPop, req_items # <<>>, UNCHANGED <<setup, preemptive>>
    PROVE  IInv'
<1> DEFINE c == Head(req_items)
<1>0. /\ TypeOK /\ SetupInv /\ RunInv /\ WakesInv /\ CountInv /\ OneTokenPerCall /\ ValueInv
      /\ CoreInv /\ StatusMeansWake /\ NoStrandedItem /\ ex = [t \in Threads |-> ex[t]]
      /\ Client # Server /\ pc[Server] = "req_pop" /\ cur = Server
      /\ UNCHANGED <<ex, cur, args, lock, registered, preemptive, res_items,
                     recv_req_status, recv_reply_status, uipi, immediate, awaiting,
                     mute_send_num, reply_count, req_num>>
      /\ item' = c /\ req_items' = Tail(req_items) /\ Goto(Server, "rep_push")
  BY DEF IInv, ReqPop, At, setup, clientvars, Client, Server
<1>1. pc' \in [Threads -> Labels] /\ pc'[Client] = pc[Client] /\ pc'[Server] = "rep_push"
  BY <1>0, ServerGoes DEF Labels
<1>2. /\ c \in Callers /\ req_items' \in Seq(Callers) /\ Len(req_items) \in Nat
      /\ Len(req_items') = Len(req_items) - 1
  BY <1>0, HeadTailProperties DEF TypeOK
<1>3. item = NoItem /\ NoItem \notin Callers  BY <1>0, Sized DEF CountInv
<1>4. TypeOK'
  <2>1. Len(req_items') <= RingSize  BY <1>0, <1>2, Sized DEF TypeOK
  <2> QED  BY <1>0, <1>1, <1>2, <2>1 DEF TypeOK
<1>5. SetupInv'  BY <1>0, <1>1 DEF SetupInv, ServerSetup, Serving, Looping
<1>6. RunInv'  BY <1>0, <1>1 DEF RunInv, Serving
<1>7. CountInv'
  <2>1. /\ One(pc[Server] \in {"rep_push", "rep_test", "rep_store", "rep_uipi", "req_count"}) = 0
        /\ One(pc'[Server] \in {"rep_push", "rep_test", "rep_store", "rep_uipi", "req_count"}) = 1
        /\ One(pc[Server] \in {"rep_test", "rep_store", "rep_uipi", "req_count"}) = 0
        /\ One(pc'[Server] \in {"rep_test", "rep_store", "rep_uipi", "req_count"}) = 0
    BY <1>0, <1>1 DEF One
  <2>2. SendNum - mute_send_num = Len(req_items) + req_num
          + One(pc[Server] \in {"rep_push", "rep_test", "rep_store", "rep_uipi", "req_count"})
    BY <1>0 DEF CountInv
  <2>3. req_num \in Nat /\ SendNum \in Nat /\ mute_send_num \in Nat  BY CountFacts
  <2>4. SendNum - mute_send_num = Len(req_items') + req_num
          + One(pc'[Server] \in {"rep_push", "rep_test", "rep_store", "rep_uipi", "req_count"})
    BY <1>2, <2>1, <2>2, <2>3
  <2>5. reply_count + Len(res_items) = req_num
          + One(pc[Server] \in {"rep_test", "rep_store", "rep_uipi", "req_count"})
    BY <1>0 DEF CountInv
  <2>6. reply_count + Len(res_items) = req_num
          + One(pc'[Server] \in {"rep_test", "rep_store", "rep_uipi", "req_count"})
    BY <2>1, <2>5
  <2>7. item' # NoItem  BY <1>0, <1>2, <1>3
  <2> QED  BY <1>0, <1>1, <2>4, <2>6, <2>7 DEF CountInv
<1>8. WakesInv'
  <2>1. /\ pc[Server] # "rep_uipi" /\ pc'[Server] # "rep_uipi" /\ pc'[Server] # "rep_store"
        /\ pc[Server] \in Serving /\ pc'[Server] \in Serving
    BY <1>0, <1>1 DEF Serving
  <2> QED  BY <1>0, <1>1, <2>1 DEF WakesInv
<1>9. OneTokenPerCall'
  <2> SUFFICES ASSUME NEW d \in Callers
               PROVE  Occurrences(req_items', d) + Occurrences(res_items', d)
                        + (IF item' = d THEN 1 ELSE 0) + (IF immediate'[d] = d THEN 1 ELSE 0)
                        = IF Outstanding(d)' THEN 1 ELSE 0
    BY <1>4 DEF OneTokenPerCall
  <2>1. Occurrences(req_items, d) = Occurrences(req_items', d) + (IF d = c THEN 1 ELSE 0)
    BY <1>0, OccurrencesTail DEF TypeOK
  <2>2. Occurrences(req_items', d) \in Nat /\ Occurrences(res_items, d) \in Nat
    BY <1>0, <1>2, OccurrencesFinite DEF TypeOK
  <2>3. Outstanding(d)' <=> Outstanding(d)  BY <1>0, <1>1 DEF Outstanding
  <2>4. Occurrences(req_items, d) + Occurrences(res_items, d)
          + (IF item = d THEN 1 ELSE 0) + (IF immediate[d] = d THEN 1 ELSE 0)
          = IF Outstanding(d) THEN 1 ELSE 0
    BY <1>0 DEF OneTokenPerCall
  <2>5. item # d  BY <1>3
  <2>6. item' = c /\ res_items' = res_items /\ immediate' = immediate  BY <1>0
  <2> HIDE DEF c
  <2>7. CASE d = c  BY <2>1, <2>2, <2>3, <2>4, <2>5, <2>6, <2>7
  <2>8. CASE d # c  BY <2>1, <2>2, <2>3, <2>4, <2>5, <2>6, <2>8
  <2> QED  BY <2>7, <2>8
<1>10. ValueInv'  BY <1>0, <1>1 DEF ValueInv
<1>11. CoreInv'  BY <1>0, <1>1 DEF CoreInv, Other, Parked
<1>12. ServerWakes' /\ (ClientWakes' <=> ClientWakes)
  BY <1>0, <1>1 DEF ServerWakes, ClientWakes
<1>13. StatusMeansWake'  BY <1>0, <1>1, <1>12 DEF StatusMeansWake
<1>14. NoStrandedItem'  BY <1>0, <1>1, <1>12 DEF NoStrandedItem
<1>15. ex' = [t \in Threads |-> ex'[t]]  BY <1>0
<1> QED  BY <1>4, <1>5, <1>6, <1>7, <1>8, <1>9, <1>10, <1>11, <1>13, <1>14, <1>15 DEF IInv

(* The server replies: the reply ring has room. *)
LEMMA RepPushStep ==
    ASSUME Sizes, IInv, RepPush, UNCHANGED <<setup, preemptive>>
    PROVE  IInv'
<1>0. /\ TypeOK /\ SetupInv /\ RunInv /\ WakesInv /\ CountInv /\ OneTokenPerCall /\ ValueInv
      /\ CoreInv /\ StatusMeansWake /\ NoStrandedItem /\ ex = [t \in Threads |-> ex[t]]
      /\ Client # Server /\ pc[Server] = "rep_push" /\ cur = Server
      /\ UNCHANGED <<ex, cur, args, lock, registered, preemptive, req_items,
                     recv_req_status, recv_reply_status, uipi, immediate, awaiting,
                     mute_send_num, reply_count, req_num>>
      /\ item' = NoItem /\ res_items' = Append(res_items, item)
      /\ Goto(Server, IF Len(res_items) = RingSize THEN "panic" ELSE "rep_test")
  BY DEF IInv, RepPush, At, setup, clientvars, Client, Server
<1>1. item \in Callers /\ res_items \in Seq(Callers) /\ NoItem \notin Callers
  BY <1>0, Sized DEF CountInv, TypeOK
<1>2. Len(res_items) \in Nat /\ Len(res_items) < RingSize
  <2>1. Occurrences(res_items, item) = 0  BY <1>1, TokenFacts
  <2>2. \A d \in Callers : Occurrences(res_items, d) <= 1  BY TokenFacts
  <2>3. Len(res_items) < CoroutineNum  BY <1>1, <2>1, <2>2, RoomFor
  <2>4. Len(res_items) \in Nat /\ CoroutineNum \in Nat /\ RingSize \in Nat
        /\ CoroutineNum <= RingSize
    BY <1>1, Sized, LenProperties DEF Sizes
  <2> QED  BY <2>3, <2>4
<1>3. pc' \in [Threads -> Labels] /\ pc'[Client] = pc[Client] /\ pc'[Server] = "rep_test"
  <2>1. Goto(Server, "rep_test")  BY <1>0, <1>2, Sized
  <2> QED  BY <1>0, <2>1, ServerGoes DEF Labels
<1>4. res_items' \in Seq(Callers) /\ Len(res_items') = Len(res_items) + 1
  BY <1>0, <1>1, AppendProperties
<1>5. TypeOK'
  <2>1. Len(res_items') <= RingSize  BY <1>2, <1>4, Sized
  <2> QED  BY <1>0, <1>3, <1>4, <2>1 DEF TypeOK
<1>6. SetupInv'  BY <1>0, <1>3 DEF SetupInv, ServerSetup, Serving, Looping
<1>7. RunInv'  BY <1>0, <1>3 DEF RunInv, Serving
<1>8. CountInv'
  <2>1. /\ One(pc[Server] \in {"rep_push", "rep_test", "rep_store", "rep_uipi", "req_count"}) = 1
        /\ One(pc'[Server] \in {"rep_push", "rep_test", "rep_store", "rep_uipi", "req_count"}) = 1
        /\ One(pc[Server] \in {"rep_test", "rep_store", "rep_uipi", "req_count"}) = 0
        /\ One(pc'[Server] \in {"rep_test", "rep_store", "rep_uipi", "req_count"}) = 1
    BY <1>0, <1>3 DEF One
  <2>2. SendNum - mute_send_num = Len(req_items) + req_num
          + One(pc[Server] \in {"rep_push", "rep_test", "rep_store", "rep_uipi", "req_count"})
    BY <1>0 DEF CountInv
  <2>3. SendNum - mute_send_num = Len(req_items) + req_num
          + One(pc'[Server] \in {"rep_push", "rep_test", "rep_store", "rep_uipi", "req_count"})
    BY <2>1, <2>2
  <2>4. reply_count + Len(res_items) = req_num
          + One(pc[Server] \in {"rep_test", "rep_store", "rep_uipi", "req_count"})
    BY <1>0 DEF CountInv
  <2>5. req_num \in Nat /\ reply_count \in Nat  BY CountFacts
  <2>6. reply_count + Len(res_items') = req_num
          + One(pc'[Server] \in {"rep_test", "rep_store", "rep_uipi", "req_count"})
    BY <1>2, <1>4, <2>1, <2>4, <2>5
  <2> QED  BY <1>0, <1>3, <2>3, <2>6 DEF CountInv
<1>9. WakesInv'
  <2>1. /\ pc[Server] # "rep_uipi" /\ pc'[Server] # "rep_uipi" /\ pc'[Server] # "rep_store"
        /\ pc[Server] \in Serving /\ pc'[Server] \in Serving
    BY <1>0, <1>3 DEF Serving
  <2> QED  BY <1>0, <1>3, <2>1 DEF WakesInv
<1>10. OneTokenPerCall'
  <2> SUFFICES ASSUME NEW d \in Callers
               PROVE  Occurrences(req_items', d) + Occurrences(res_items', d)
                        + (IF item' = d THEN 1 ELSE 0) + (IF immediate'[d] = d THEN 1 ELSE 0)
                        = IF Outstanding(d)' THEN 1 ELSE 0
    BY <1>5 DEF OneTokenPerCall
  <2>1. Occurrences(res_items', d) = Occurrences(res_items, d) + (IF d = item THEN 1 ELSE 0)
    BY <1>0, <1>1, OccurrencesAppend
  <2>2. Occurrences(req_items, d) \in Nat /\ Occurrences(res_items, d) \in Nat
    BY <1>0, OccurrencesFinite DEF TypeOK
  <2>3. Outstanding(d)' <=> Outstanding(d)  BY <1>0, <1>3 DEF Outstanding
  <2>4. Occurrences(req_items, d) + Occurrences(res_items, d)
          + (IF item = d THEN 1 ELSE 0) + (IF immediate[d] = d THEN 1 ELSE 0)
          = IF Outstanding(d) THEN 1 ELSE 0
    BY <1>0 DEF OneTokenPerCall
  <2>5. item' # d  BY <1>0, <1>1
  <2>6. req_items' = req_items /\ immediate' = immediate  BY <1>0
  <2>7. CASE d = item  BY <2>1, <2>2, <2>3, <2>4, <2>5, <2>6, <2>7
  <2>8. CASE d # item  BY <2>1, <2>2, <2>3, <2>4, <2>5, <2>6, <2>8
  <2> QED  BY <2>7, <2>8
<1>11. ValueInv'  BY <1>0, <1>3 DEF ValueInv
<1>12. CoreInv'  BY <1>0, <1>3 DEF CoreInv, Other, Parked
<1>13. ServerWakes' /\ (ClientWakes' <=> ClientWakes)
  BY <1>0, <1>3 DEF ServerWakes, ClientWakes
<1>14. StatusMeansWake'  BY <1>0, <1>3, <1>13 DEF StatusMeansWake
<1>15. NoStrandedItem'  BY <1>0, <1>3, <1>13 DEF NoStrandedItem
<1>16. ex' = [t \in Threads |-> ex'[t]]  BY <1>0
<1> QED  BY <1>5, <1>6, <1>7, <1>8, <1>9, <1>10, <1>11, <1>12, <1>14, <1>15, <1>16 DEF IInv

(* The server has answered a request, and ends after the last one. *)
LEMMA ReqCountStep ==
    ASSUME IInv, ReqCount, UNCHANGED <<setup, preemptive>>
    PROVE  IInv'
<1> DEFINE x == ex[Server]
           e == IF req_num + 1 = SendNum THEN RemoveTask(x, Receiver) ELSE x
           l == IF req_num + 1 = SendNum THEN "fetch" ELSE "req_pop"
<1>0. /\ TypeOK /\ SetupInv /\ RunInv /\ WakesInv /\ CountInv /\ OneTokenPerCall /\ ValueInv
      /\ CoreInv /\ StatusMeansWake /\ NoStrandedItem /\ ex = [t \in Threads |-> ex[t]]
      /\ Client # Server /\ pc[Server] = "req_count" /\ cur = Server
      /\ UNCHANGED <<cur, args, lock, registered, preemptive, req_items, res_items,
                     recv_req_status, recv_reply_status, uipi, immediate, awaiting,
                     mute_send_num, reply_count, item>>
      /\ req_num' = req_num + 1
  BY DEF IInv, ReqCount, At, setup, shared, clientvars, Client, Server
<1>1. /\ x.current = Receiver /\ Receiver \in Live(x) /\ Shape(x, 1, {})
      /\ Server \in registered /\ req_num < SendNum /\ req_num \in Nat /\ SendNum \in Nat
  BY <1>0, PastSetup, CountFacts DEF RunInv, Serving
<1>2. ex' = [ex EXCEPT ![Server] = e] /\ Goto(Server, l)
  <2>1. CASE req_num + 1 = SendNum
    BY <1>0, <1>1, <2>1 DEF ReqCount, End
  <2>2. CASE req_num + 1 # SendNum
    <3>1. ex' = ex /\ Goto(Server, "req_pop")  BY <1>0, <2>2 DEF ReqCount
    <3>2. ex = [ex EXCEPT ![Server] = x]  BY <1>0
    <3> QED  BY <2>2, <3>1, <3>2
  <2> QED  BY <2>1, <2>2
<1>3. pc' \in [Threads -> Labels] /\ pc'[Client] = pc[Client] /\ pc'[Server] = l
  BY <1>0, <1>2, ServerGoes DEF Labels
<1>4. /\ Shape(e, 1, {}) /\ ExecutorType(e) /\ e.current = x.current
      /\ Receiver \in Live(e) <=> req_num + 1 < SendNum
      /\ e.ready = x.ready /\ e.delay = x.delay
  <2>1. CASE req_num + 1 = SendNum
    <3> DEFINE y == RemoveTask(x, Receiver)
    <3>1. Kind(1, {})  BY DEF Kind
    <3>2. /\ Shape(y, 1, {}) /\ Live(y) = Live(x) \ {Receiver}
          /\ y.ready = x.ready /\ y.delay = x.delay /\ y.current = x.current
      BY <1>1, <3>1, ShapeRemove
    <3> HIDE DEF y
    <3>3. ExecutorType(y)  BY <3>2 DEF Shape
    <3>4. e = y  BY <2>1 DEF y
    <3> QED  BY <1>1, <2>1, <3>2, <3>3, <3>4
  <2>2. CASE req_num + 1 # SendNum
    <3>1. e = x  BY <2>2
    <3>2. req_num + 1 < SendNum  BY <1>1, <2>2
    <3>3. ExecutorType(x)  BY <1>1 DEF Shape
    <3> QED  BY <1>1, <3>1, <3>2, <3>3
  <2> QED  BY <2>1, <2>2
<1>5. /\ pc'[Server] = "fetch" \/ pc'[Server] = "req_pop"
      /\ pc'[Server] = "req_pop" <=> req_num + 1 < SendNum
  BY <1>1, <1>3
<1> HIDE DEF e, l
<1>6. /\ ex'[Server] = e /\ ex'[Client] = ex[Client] /\ ex' = [t \in Threads |-> ex'[t]]
  BY <1>0, <1>2, ServerRuns
<1>7. Wakes(e, 1) = Wakes(x, 1) /\ Queued(e, 1) = Queued(x, 1)  BY <1>4 DEF Wakes, Queued
<1>8. TypeOK'
  <2>1. \A t \in Threads : ExecutorType(ex'[t])  BY <1>0, <1>4, <1>6 DEF TypeOK, Threads
  <2>2. req_num' \in 0 .. SendNum  BY <1>0, <1>1
  <2> QED  BY <1>0, <1>3, <2>1, <2>2 DEF TypeOK
<1>9. SetupInv'
  BY <1>0, <1>1, <1>3, <1>5, <1>6 DEF SetupInv, ServerSetup, Serving, Looping
<1>10. RunInv'
  BY <1>0, <1>1, <1>3, <1>4, <1>5, <1>6 DEF RunInv, Serving
<1>11. CountInv'
  <2>1. /\ One(pc[Server] \in {"rep_push", "rep_test", "rep_store", "rep_uipi", "req_count"}) = 1
        /\ One(pc'[Server] \in {"rep_push", "rep_test", "rep_store", "rep_uipi", "req_count"}) = 0
        /\ One(pc[Server] \in {"rep_test", "rep_store", "rep_uipi", "req_count"}) = 1
        /\ One(pc'[Server] \in {"rep_test", "rep_store", "rep_uipi", "req_count"}) = 0
    BY <1>0, <1>5 DEF One
  <2>2. SendNum - mute_send_num = Len(req_items) + req_num
          + One(pc[Server] \in {"rep_push", "rep_test", "rep_store", "rep_uipi", "req_count"})
    BY <1>0 DEF CountInv
  <2>3. Len(req_items) \in Nat /\ req_num' = req_num + 1  BY <1>0, CountFacts
  <2>4. SendNum - mute_send_num = Len(req_items) + req_num'
          + One(pc'[Server] \in {"rep_push", "rep_test", "rep_store", "rep_uipi", "req_count"})
    BY <1>1, <2>1, <2>2, <2>3
  <2>5. reply_count + Len(res_items) = req_num
          + One(pc[Server] \in {"rep_test", "rep_store", "rep_uipi", "req_count"})
    BY <1>0 DEF CountInv
  <2>6. reply_count + Len(res_items) = req_num'
          + One(pc'[Server] \in {"rep_test", "rep_store", "rep_uipi", "req_count"})
    BY <1>1, <2>1, <2>3, <2>5
  <2> QED  BY <1>0, <1>5, <2>4, <2>6 DEF CountInv
<1>12. WakesInv'
  <2> DEFINE w == Wakes(x, 1)
             a == One(uipi[Server])
             b == One(pc[Client] = "call_uipi")
             d == One(recv_req_status)
  <2>1. w + a + b + One(pc[Server] \in Serving) <= 1 + d  BY <1>0 DEF WakesInv
  <2>2. One(pc[Server] \in Serving) = 1 /\ One(pc'[Server] \in Serving) \in 0 .. 1
    BY <1>0 DEF One, Serving
  <2>3. w \in Nat  BY <1>0, ShapeQueues DEF RunInv, Kind
  <2>4. a \in Nat /\ b \in Nat /\ d \in Nat  BY DEF One
  <2> HIDE DEF w, a, b, d
  <2>5. w + a + b + One(pc'[Server] \in Serving) <= 1 + d  BY <2>1, <2>2, <2>3, <2>4
  <2>6. Wakes(ex'[Server], 1) + One(uipi'[Server]) + One(pc'[Client] = "call_uipi")
          + One(pc'[Server] \in Serving) <= 1 + One(recv_req_status')
    BY <1>0, <1>3, <1>6, <1>7, <2>5 DEF w, a, b, d
  <2>7. pc[Server] # "rep_uipi" /\ pc'[Server] # "rep_uipi" /\ pc'[Server] # "rep_store"
    BY <1>0, <1>5
  <2>8. Wakes(ex'[Client], 0) + One(uipi'[Client]) + One(pc'[Server] = "rep_uipi")
          + One(pc'[Client] \in Receiving) <= 1 + One(recv_reply_status')
    <3>1. One(pc[Server] = "rep_uipi") = One(pc'[Server] = "rep_uipi")  BY <2>7 DEF One
    <3> QED  BY <1>0, <1>3, <1>6, <3>1 DEF WakesInv
  <2> QED  BY <1>0, <1>3, <2>6, <2>7, <2>8 DEF WakesInv
<1>13. OneTokenPerCall'
  <2>1. \A d \in Callers : Outstanding(d)' <=> Outstanding(d)
    BY <1>0, <1>3, <1>6 DEF Outstanding
  <2> QED  BY <1>0, <1>8, <2>1 DEF OneTokenPerCall
<1>14. ValueInv'  BY <1>0, <1>3, <1>6 DEF ValueInv
<1>15. CoreInv'  BY <1>0, <1>3, <1>5 DEF CoreInv, Other, Parked
<1>16. ClientWakes' <=> ClientWakes  BY <1>0, <1>3, <1>5, <1>6 DEF ClientWakes
<1>17. req_num' < SendNum => ServerWakes'  BY <1>0, <1>5 DEF ServerWakes
<1>18. StatusMeansWake'  BY <1>0, <1>3, <1>16, <1>17 DEF StatusMeansWake
<1>19. NoStrandedItem'
  <2>1. req_items # <<>> => req_num' < SendNum
    <3> DEFINE a == One(pc[Server] \in {"rep_push", "rep_test", "rep_store", "rep_uipi", "req_count"})
    <3>1. SendNum - mute_send_num = Len(req_items) + req_num + a  BY <1>0 DEF CountInv
    <3>2. a = 1  BY <1>0 DEF One
    <3>3. /\ Len(req_items) \in Nat /\ mute_send_num \in Nat
          /\ req_items # <<>> => Len(req_items) > 0
      BY CountFacts
    <3>4. req_num' = req_num + 1  BY <1>0
    <3> HIDE DEF a
    <3> QED  BY <1>1, <3>1, <3>2, <3>3, <3>4
  <2> QED  BY <1>0, <1>5, <1>16, <1>17, <2>1 DEF NoStrandedItem
<1> QED  BY <1>6, <1>8, <1>9, <1>10, <1>11, <1>12, <1>13, <1>14, <1>15, <1>18, <1>19 DEF IInv

(* A reply at the head of the ring is for a caller that waits for it.      *)
LEMMA ReplyFor ==
    ASSUME IInv, pc[Client] = "reply_pop", res_items # <<>>
    PROVE  LET c == Head(res_items)
           IN  /\ c \in Callers /\ c \in TaskIds /\ c \in awaiting
               /\ immediate[c] # c
               /\ c \notin Queued(ex[Client], 1)
<1> DEFINE c == Head(res_items)
<1>0. c \in Callers /\ res_items \in Seq(Callers) /\ Tail(res_items) \in Seq(Callers)
  BY HeadTailProperties DEF IInv, TypeOK
<1>1. Occurrences(res_items, c) = 1
  <2>1. Occurrences(res_items, c) = Occurrences(Tail(res_items), c) + (IF c = c THEN 1 ELSE 0)
    BY <1>0, OccurrencesTail
  <2>2. Occurrences(Tail(res_items), c) \in Nat  BY <1>0, OccurrencesFinite
  <2>3. Occurrences(res_items, c) \in 0 .. 1  BY <1>0, TokenFacts
  <2> HIDE DEF c
  <2> QED  BY <2>1, <2>2, <2>3
<1>2. Outstanding(c) /\ immediate[c] # c  BY <1>0, <1>1, TokenFacts
<1>3. c \in awaiting  BY <1>2 DEF Outstanding
<1>4. c \notin Queued(ex[Client], 1)  BY <1>2, <1>3 DEF IInv, ValueInv
<1> QED  BY <1>0, <1>2, <1>3, <1>4, Sized

(* The client's receiver hands a reply to its caller, and ends after the   *)
(* last one.                                                               *)
LEMMA ReplyPopStep ==
    ASSUME IInv, ReplyPop, res_items # <<>>, UNCHANGED <<setup, preemptive>>
    PROVE  IInv'
<1> DEFINE x == ex[Client]
           c == Head(res_items)
           w == Wake(x, c)
           last == reply_count + 1 = SendNum
           e == IF last THEN RemoveTask(w, Receiver) ELSE w
           l == IF last THEN "fetch" ELSE "reply_pop"
<1>0. /\ TypeOK /\ SetupInv /\ RunInv /\ WakesInv /\ CountInv /\ OneTokenPerCall /\ ValueInv
      /\ CoreInv /\ StatusMeansWake /\ NoStrandedItem /\ ex = [t \in Threads |-> ex[t]]
      /\ Client # Server /\ pc[Client] = "reply_pop" /\ cur = Client
      /\ UNCHANGED <<cur, args, lock, registered, preemptive, req_items,
                     recv_req_status, recv_reply_status, uipi, awaiting,
                     mute_send_num, item, req_num>>
      /\ res_items' = Tail(res_items)
      /\ immediate' = [immediate EXCEPT ![c] = c]
      /\ reply_count' = reply_count + 1
  BY DEF IInv, ReplyPop, At, setup, servervars, Client, Server
<1>1. /\ c \in Callers /\ c \in TaskIds /\ c \in awaiting /\ immediate[c] # c
      /\ c \notin Queued(x, 1)
  BY <1>0, ReplyFor
<1>2. /\ x.current = Receiver /\ Receiver \in Live(x) /\ Shape(x, 0, Callers)
      /\ Client \in registered
      /\ reply_count < SendNum /\ reply_count \in Nat /\ SendNum \in Nat
  BY <1>0, PastSetup, CountFacts DEF RunInv, Receiving
<1>3. ex' = [ex EXCEPT ![Client] = e] /\ pc' = [pc EXCEPT ![Client] = l]
  <2>1. CASE last
    <3>1. /\ ex' = [ex EXCEPT ![Client] = RemoveTask(w, Receiver)]
          /\ Goto(Client, "fetch")
      BY <1>0, <2>1 DEF ReplyPop
    <3> QED  BY <2>1, <3>1 DEF Goto
  <2>2. CASE ~last
    <3>1. ex' = [ex EXCEPT ![Client] = w] /\ pc' = pc  BY <1>0, <2>2 DEF ReplyPop
    <3>2. pc = [pc EXCEPT ![Client] = "reply_pop"]  BY <1>0 DEF TypeOK
    <3> QED  BY <2>2, <3>1, <3>2
  <2> QED  BY <2>1, <2>2
<1>4. pc' \in [Threads -> Labels] /\ pc'[Server] = pc[Server] /\ pc'[Client] = l
  BY <1>0, <1>3, ClientGoes DEF Labels, Goto
<1>5. /\ Shape(w, 0, Callers) /\ Live(w) = Live(x) /\ w.current = x.current
      /\ w.delay = x.delay /\ w.ready[0] = x.ready[0]
      /\ Queued(w, 1) \subseteq Queued(x, 1) \cup {c}
  <2>1. /\ Shape(w, 0, Callers) /\ Frame(x, w) /\ w.delay = x.delay
        /\ w.ready[0] = x.ready[0]
        /\ Queued(w, 1) \subseteq Queued(x, 1) \cup {c}
    BY <1>1, <1>2, ShapeWakeCaller
  <2> HIDE DEF w
  <2> QED  BY <2>1 DEF Frame, Live
<1> HIDE DEF w
<1>6. /\ Shape(e, 0, Callers) /\ ExecutorType(e) /\ e.current = Receiver
      /\ Receiver \in Live(e) <=> reply_count + 1 < SendNum
      /\ e.delay = x.delay /\ e.ready[0] = x.ready[0]
      /\ Queued(e, 1) \subseteq Queued(x, 1) \cup {c}
  <2>1. CASE last
    <3> DEFINE y == RemoveTask(w, Receiver)
    <3>1. Kind(0, Callers) /\ 1 \in Prios  BY Sized DEF Kind
    <3>2. /\ Shape(y, 0, Callers) /\ Live(y) = Live(w) \ {Receiver}
          /\ y.ready = w.ready /\ y.delay = w.delay /\ y.current = w.current
          /\ \A p \in Prios : Queued(y, p) = Queued(w, p)
      BY <1>2, <1>5, <3>1, ShapeRemove
    <3> HIDE DEF y
    <3>3. ExecutorType(y)  BY <3>2 DEF Shape
    <3>4. e = y  BY <2>1 DEF y
    <3>5. Receiver \notin Live(y) /\ ~(reply_count + 1 < SendNum)  BY <1>2, <2>1, <3>2
    <3> QED  BY <1>2, <1>5, <3>1, <3>2, <3>3, <3>4, <3>5
  <2>2. CASE ~last
    <3>1. e = w  BY <2>2
    <3>2. reply_count + 1 < SendNum  BY <1>2, <2>2
    <3>3. ExecutorType(w)  BY <1>5 DEF Shape
    <3> QED  BY <1>2, <1>5, <3>1, <3>2, <3>3
  <2> QED  BY <2>1, <2>2
<1>7. /\ pc'[Client] = "fetch" \/ pc'[Client] = "reply_pop"
      /\ pc'[Client] = "reply_pop" <=> reply_count + 1 < SendNum
  BY <1>2, <1>4
<1> HIDE DEF e, l
<1>8. /\ ex'[Client] = e /\ ex'[Server] = ex[Server] /\ ex' = [t \in Threads |-> ex'[t]]
  BY <1>0, <1>3, ClientRuns
<1>9. Wakes(e, 0) = Wakes(x, 0) /\ Queued(e, 0) = Queued(x, 0)  BY <1>6 DEF Wakes, Queued
<1>10. /\ res_items' \in Seq(Callers) /\ Len(res_items) \in Nat
       /\ Len(res_items') = Len(res_items) - 1
  BY <1>0, HeadTailProperties DEF TypeOK
<1>11. /\ immediate' \in [TaskIds -> Callers \cup {NoItem}]
       /\ immediate'[c] = c /\ \A d \in Callers \ {c} : immediate'[d] = immediate[d]
  BY <1>0, <1>1, Sized DEF TypeOK
<1>12. TypeOK'
  <2>1. \A t \in Threads : ExecutorType(ex'[t])  BY <1>0, <1>6, <1>8 DEF TypeOK, Threads
  <2>2. reply_count' \in 0 .. SendNum  BY <1>0, <1>2
  <2>3. Len(res_items') <= RingSize  BY <1>0, <1>10, Sized DEF TypeOK
  <2> QED  BY <1>0, <1>4, <1>10, <1>11, <2>1, <2>2, <2>3 DEF TypeOK
<1>13. SetupInv'
  BY <1>0, <1>2, <1>4, <1>7, <1>8 DEF SetupInv, ClientSetup, Receiving, Calling, Looping
<1>14. RunInv'
  BY <1>0, <1>2, <1>4, <1>6, <1>7, <1>8 DEF RunInv, Receiving, Calling
<1>15. CountInv'
  <2> DEFINE b == One(pc[Server] \in {"rep_test", "rep_store", "rep_uipi", "req_count"})
  <2>1. reply_count + Len(res_items) = req_num + b  BY <1>0 DEF CountInv
  <2>2. reply_count' = reply_count + 1  BY <1>0
  <2> HIDE DEF b
  <2>3. reply_count' + Len(res_items') = req_num + b  BY <1>2, <1>10, <2>1, <2>2
  <2> QED  BY <1>0, <1>4, <2>3 DEF CountInv, b
<1>16. WakesInv'
  <2> DEFINE v == Wakes(x, 0)
             a == One(uipi[Client])
             b == One(pc[Server] = "rep_uipi")
             d == One(recv_reply_status)
  <2>1. v + a + b + One(pc[Client] \in Receiving) <= 1 + d  BY <1>0 DEF WakesInv
  <2>2. One(pc[Client] \in Receiving) = 1 /\ One(pc'[Client] \in Receiving) \in 0 .. 1
    BY <1>0 DEF One, Receiving
  <2>3. v \in Nat  BY <1>0, ShapeQueues DEF RunInv, Kind
  <2>4. a \in Nat /\ b \in Nat /\ d \in Nat  BY DEF One
  <2> HIDE DEF v, a, b, d
  <2>5. v + a + b + One(pc'[Client] \in Receiving) <= 1 + d  BY <2>1, <2>2, <2>3, <2>4
  <2>6. Wakes(ex'[Client], 0) + One(uipi'[Client]) + One(pc'[Server] = "rep_uipi")
          + One(pc'[Client] \in Receiving) <= 1 + One(recv_reply_status')
    BY <1>0, <1>4, <1>8, <1>9, <2>5 DEF v, a, b, d
  <2>7. /\ pc[Client] # "call_uipi" /\ pc'[Client] # "call_uipi" /\ pc'[Client] # "call_store"
        /\ pc'[Client] \notin {"none", "wait_args", "register"}
    BY <1>0, <1>7
  <2>8. Wakes(ex'[Server], 1) + One(uipi'[Server]) + One(pc'[Client] = "call_uipi")
          + One(pc'[Server] \in Serving) <= 1 + One(recv_req_status')
    <3>1. One(pc[Client] = "call_uipi") = One(pc'[Client] = "call_uipi")  BY <2>7 DEF One
    <3> QED  BY <1>0, <1>4, <1>8, <3>1 DEF WakesInv
  <2> QED  BY <1>0, <1>4, <2>6, <2>7, <2>8 DEF WakesInv
<1>17. OneTokenPerCall'
  <2> SUFFICES ASSUME NEW d \in Callers
               PROVE  Occurrences(req_items', d) + Occurrences(res_items', d)
                        + (IF item' = d THEN 1 ELSE 0) + (IF immediate'[d] = d THEN 1 ELSE 0)
                        = IF Outstanding(d)' THEN 1 ELSE 0
    BY <1>12 DEF OneTokenPerCall
  <2>1. Occurrences(res_items, d) = Occurrences(res_items', d) + (IF d = c THEN 1 ELSE 0)
    BY <1>0, OccurrencesTail DEF TypeOK
  <2>2. Occurrences(req_items, d) \in Nat /\ Occurrences(res_items', d) \in Nat
    BY <1>0, <1>10, OccurrencesFinite DEF TypeOK
  <2>3. Outstanding(d)' <=> Outstanding(d)  BY <1>0, <1>7 DEF Outstanding
  <2>4. Occurrences(req_items, d) + Occurrences(res_items, d)
          + (IF item = d THEN 1 ELSE 0) + (IF immediate[d] = d THEN 1 ELSE 0)
          = IF Outstanding(d) THEN 1 ELSE 0
    BY <1>0 DEF OneTokenPerCall
  <2>5. item' = item /\ req_items' = req_items  BY <1>0
  <2>6. CASE d = c
    <3>1. immediate[d] # d /\ immediate'[d] = d  BY <1>1, <1>11, <2>6
    <3> HIDE DEF c
    <3> QED  BY <2>1, <2>2, <2>3, <2>4, <2>5, <2>6, <3>1
  <2>7. CASE d # c
    <3>1. immediate'[d] = immediate[d]  BY <1>11, <2>7
    <3> HIDE DEF c
    <3> QED  BY <2>1, <2>2, <2>3, <2>4, <2>5, <2>7, <3>1
  <2> QED  BY <2>6, <2>7
<1>18. ValueInv'
  <2> SUFFICES ASSUME NEW d \in awaiting, d \in Queued(e, 1)  PROVE immediate'[d] = d
    BY <1>0, <1>7, <1>8 DEF ValueInv
  <2>1. d \in Callers  BY <1>0 DEF TypeOK
  <2>2. d = c \/ d \in Queued(x, 1)  BY <1>6
  <2> HIDE DEF c
  <2> QED  BY <1>0, <1>11, <2>1, <2>2 DEF ValueInv
<1>19. CoreInv'  BY <1>0, <1>4, <1>7 DEF CoreInv, Other, Parked
<1>20. ServerWakes' <=> ServerWakes  BY <1>0, <1>4, <1>7, <1>8 DEF ServerWakes
<1>21. reply_count' < SendNum => ClientWakes'  BY <1>0, <1>7 DEF ClientWakes
<1>22. StatusMeansWake'  BY <1>0, <1>4, <1>20, <1>21 DEF StatusMeansWake
<1>23. NoStrandedItem'
  <2>1. res_items' # <<>> => reply_count' < SendNum
    <3>1. reply_count + Len(res_items) <= SendNum  BY CountFacts
    <3>2. res_items' # <<>> => Len(res_items') > 0 /\ Len(res_items') \in Nat
      BY <1>10, LenProperties, EmptySeq
    <3>3. reply_count' = reply_count + 1  BY <1>0
    <3> QED  BY <1>2, <1>10, <3>1, <3>2, <3>3
  <2> QED  BY <1>0, <1>7, <1>20, <1>21, <2>1 DEF NoStrandedItem
<1> QED  BY <1>8, <1>12, <1>13, <1>14, <1>15, <1>16, <1>17, <1>18, <1>19, <1>22, <1>23 DEF IInv

-----------------------------------------------------------------------------
(* The theorems. *)

(* Every step of the two threads, of the interrupt handlers and of the     *)
(* scheduler preserves the invariant.                                      *)
LEMMA Inductive ==
    ASSUME Sizes, IInv, [Next]_vars
    PROVE  IInv'
<1>1. CASE UNCHANGED vars
  <2>1. IInv' <=> IInv
    BY <1>1 DEF vars, setup, shared, clientvars, servervars, IInv, TypeOK, SetupInv, RunInv,
          CountInv, WakesInv, OneTokenPerCall, Outstanding, ValueInv, CoreInv, StatusMeansWake,
          NoStrandedItem, ServerWakes, ClientWakes
  <2> QED  BY <2>1
<1>2. ASSUME NEW t \in Threads, SetupStep(t), UNCHANGED preemptive  PROVE IInv'
  <2>1. CASE Register(t)
    BY <1>2, <2>1, RegisterServerStep, RegisterClientStep DEF Threads
  <2>2. CASE LockArgs(t)  BY <1>2, <2>2, LockStep
  <2>3. CASE async_ipc_test
    BY <1>2, <2>3, SetArgsStep, WaitArgsStep, CreateStep DEF async_ipc_test
  <2>4. CASE async_helper_thread
    BY <1>2, <2>4, SetArgsStep, WaitArgsStep DEF async_helper_thread
  <2>5. CASE SpawnCallers  BY <1>2, <2>5, SpawnStep
  <2> QED  BY <1>2, <2>1, <2>2, <2>3, <2>4, <2>5 DEF SetupStep
<1>3. ASSUME NEW t \in Threads, Step(t), UNCHANGED <<setup, preemptive>>  PROVE IInv'
  <2>1. CASE MainLoop(t)  BY <1>3, <2>1, MainStep
  <2>2. CASE FetchNext(t)
    BY <1>3, <2>2, FetchServerStep, FetchClientStep DEF Threads
  <2>3. CASE Yield(t)  BY <1>3, <2>3, YieldStep
  <2>4. CASE Call
    <3>1. mute_send_num > 0 \/ mute_send_num = 0  BY CountFacts
    <3> QED  BY <1>3, <2>4, <3>1, CallStep, EndStep
  <2>5. CASE CallTest  BY <1>3, <2>5, CallTestStep
  <2>6. CASE CallStore  BY <1>3, <2>6, CallStoreStep
  <2>7. CASE CallUipi  BY <1>3, <2>7, CallUipiStep
  <2>8. CASE ReplyPop  BY <1>3, <2>8, ReplyPopStep, ReplyEmptyStep
  <2>9. CASE ReplyIdle  BY <1>3, <2>9, ReplyIdleStep
  <2>10. CASE ReqPop  BY <1>3, <2>10, ReqPopStep, ReqEmptyStep
  <2>11. CASE RepPush  BY <1>3, <2>11, RepPushStep
  <2>12. CASE RepTest  BY <1>3, <2>12, RepTestStep
  <2>13. CASE RepStore  BY <1>3, <2>13, RepStoreStep
  <2>14. CASE RepUipi  BY <1>3, <2>14, RepUipiStep
  <2>15. CASE ReqCount  BY <1>3, <2>15, ReqCountStep
  <2>16. CASE ReqIdle  BY <1>3, <2>16, ReqIdleStep
  <2> QED
    BY <1>3, <2>1, <2>2, <2>3, <2>4, <2>5, <2>6, <2>7, <2>8, <2>9, <2>10, <2>11, <2>12, <2>13,
       <2>14, <2>15, <2>16 DEF Step, ClientStep, ServerStep
<1>4. ASSUME NEW t \in Threads, TakeInterrupt(t)  PROVE IInv'
  BY <1>4, InterruptServerStep, InterruptClientStep DEF Threads
<1>5. CASE Preempt /\ UNCHANGED <<setup, preemptive>>  BY <1>5, PreemptStep
<1> QED  BY <1>1, <1>2, <1>3, <1>4, <1>5 DEF Next, Run, Terminated

LEMMA Invariant == ASSUME Sizes PROVE Spec => []IInv
<1>1. Init => IInv  BY Initial
<1>2. IInv /\ [Next]_vars => IInv'  BY Inductive
<1> QED  BY <1>1, <1>2, PTL DEF Spec

(* No thread of the IPC test panics, whichever scheduler runs them: no     *)
(* ring of NewBuffer is full when a call or a reply is pushed, no ready    *)
(* queue overflows, every caller resumes with its reply, and neither       *)
(* thread unwraps a field of AsyncArgs the other has not set.              *)
THEOREM IpcNeverPanics == ASSUME Sizes PROVE Spec => []NoPanic
<1>1. IInv => NoPanic
  BY DEF IInv, SetupInv, RunInv, Shape, NoPanic, Threads, ServerSetup, ClientSetup, Serving,
         Receiving, Calling, Looping
<1> QED  BY <1>1, Invariant, PTL

(* Every outstanding call of the IPC test is in exactly one place, and a   *)
(* caller without one owns nothing, whichever scheduler runs the threads.  *)
THEOREM CallsKeepOneToken == ASSUME Sizes PROVE Spec => []OneTokenPerCall
<1>1. IInv => OneTokenPerCall  BY DEF IInv
<1> QED  BY <1>1, Invariant, PTL

(* A sender that finds the receiver's flag set may leave the interrupt     *)
(* out: the receiver is awake, or about to be, or about to clear the flag. *)
THEOREM FlagIsReliable == ASSUME Sizes PROVE Spec => []StatusMeansWake
<1>1. IInv => StatusMeansWake  BY DEF IInv
<1> QED  BY <1>1, Invariant, PTL

(* Without preemption no item stays in a ring whose receiver sleeps.       *)
THEOREM NothingStranded == ASSUME Sizes PROVE Spec => []NoStrandedItem
<1>1. IInv => NoStrandedItem  BY DEF IInv
<1> QED  BY <1>1, Invariant, PTL
=============================================================================
