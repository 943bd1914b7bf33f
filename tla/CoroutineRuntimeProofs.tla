---------------------- MODULE CoroutineRuntimeProofs ----------------------
(***************************************************************************)
(* What the runtime of one thread guarantees its coroutines, proved for    *)
(* every size of the task array, of the ready rings and of the wake word.  *)
(* The invariant has three layers: Base holds of every program, Calm of    *)
(* the disciplined ones, and NoLostWake rests on both.                     *)
(***************************************************************************)
EXTENDS CoroutineRuntime, ExecutorProofs

(* As long as nothing has panicked the parts of the executor fit together, *)
(* a coroutine that is owed a run is alive, and only registered receivers  *)
(* are delayed.                                                            *)
Safe == /\ QueuesTyped(ex)
        /\ IdsMatch(ex)
        /\ pc = "run" => ex.current \in Live(ex)
        /\ owed \subseteq Live(ex)
        /\ ex.delay \subseteq Receivers

Base == TypeOK /\ (Ok => Safe)

(* A disciplined program never panics, and a coroutine is queued or        *)
(* delayed only once and only while it is owed a run.                      *)
Calm == disciplined =>
            /\ Ok
            /\ spare = 0
            /\ Exact(ex)
            /\ Fits(ex)
            /\ ex.delay \subseteq owed
            /\ \A p \in Prios : Queued(ex, p) \subseteq owed
            /\ \A p \in Prios : ex.delay \cap Queued(ex, p) = {}

LEMMA LiveTyped ==
    ASSUME NEW e
    PROVE  Live(e) \subseteq TaskIds
BY DEF Live

-----------------------------------------------------------------------------
(* Every program. *)

LEMMA BaseInit == Init => Base
<1> SUFFICES ASSUME Init  PROVE Base  OBVIOUS
<1>1. spare \in 0 .. MaxSpare  BY RuntimeAssumption DEF Init
<1> QED  BY <1>1, NewFacts DEF Init, Base, Safe, TypeOK

LEMMA BaseStep == Base /\ [Next]_vars => Base'
<1> SUFFICES ASSUME Base, [Next]_vars  PROVE Base'  OBVIOUS
<1>t. /\ ExecutorType(ex) /\ pc \in {"main", "fetch", "run"} /\ owed \subseteq TaskIds
      /\ spare \in 0 .. MaxSpare /\ MaxSpare \in Nat
  BY RuntimeAssumption DEF Base, TypeOK
<1>s. Ok => /\ QueuesTyped(ex) /\ IdsMatch(ex)
            /\ pc = "run" => ex.current \in Live(ex)
            /\ owed \subseteq Live(ex)
            /\ ex.delay \subseteq Receivers
  BY DEF Base, Safe
<1>1. ASSUME NEW prio \in Prios, SpawnCoroutine(prio)  PROVE Base'
  <2>1. ex' = Spawn(ex, prio) /\ owed' = owed \cup (Live(ex') \ Live(ex)) /\ Ok
        /\ UNCHANGED <<pc, spare>>
    BY <1>1 DEF SpawnCoroutine
  <2>2. /\ ExecutorType(ex')
        /\ ~ex'.panic => \E c \in TaskIds : Spawned(ex, ex', prio, c)
    BY <1>t, <2>1, SpawnFacts
  <2>3. TypeOK'  BY <1>t, <2>1, <2>2, LiveTyped DEF TypeOK
  <2>4. ASSUME ~ex'.panic  PROVE Safe'
    <3>1. PICK c \in TaskIds : Spawned(ex, ex', prio, c)  BY <2>2, <2>4
    <3>2. QueuesTyped(ex') /\ IdsMatch(ex') /\ Live(ex') = Live(ex) \cup {c}
      BY <1>t, <1>s, <2>1, <3>1, SpawnedMatch
    <3>3. ex'.current = ex.current /\ ex'.delay = ex.delay  BY <3>1 DEF Spawned
    <3> QED  BY <1>s, <2>1, <3>2, <3>3 DEF Safe
  <2> QED  BY <2>3, <2>4 DEF Base, Ok
<1>2. ASSUME Enter \/ Yield  PROVE Base'
  BY <1>t, <1>s, <1>2 DEF Enter, Yield, Base, Safe, TypeOK, Ok
<1>3. ASSUME FetchNext  PROVE Base'
  <2> DEFINE f == Fetch(ex)
  <2>1. Ok /\ ex' = f.ex /\ owed' = owed \ {f.got} /\ spare' = spare
        /\ pc' = IF f.ex.panic \/ f.got # NoCid THEN "run" ELSE "main"
    BY <1>3 DEF FetchNext
  <2>2. /\ ExecutorType(f.ex) /\ QueuesTyped(f.ex)
        /\ f.ex.tasks = ex.tasks /\ f.ex.num = ex.num /\ f.ex.ids = ex.ids
        /\ f.ex.delay = {}
        /\ f.got \in Live(ex) \cup {NoCid}
        /\ f.got # NoCid => f.ex.current = f.got
    BY <1>t, <1>s, <2>1, FetchFacts
  <2> HIDE DEF f
  <2>3. Live(ex') = Live(ex)  BY <2>1, <2>2 DEF Live
  <2>4. TypeOK'  BY <1>t, <2>1, <2>2 DEF TypeOK
  <2>5. IdsMatch(ex')  BY <1>s, <2>1, <2>2, <2>3 DEF IdsMatch
  <2>6. ~ex'.panic => Safe'  BY <1>s, <2>1, <2>2, <2>3, <2>5 DEF Safe
  <2> QED  BY <2>4, <2>6 DEF Base, Ok
<1>4. ASSUME NEW c \in TaskIds, WakeCoroutine(c)  PROVE Base'
  <2>1. /\ Ok /\ ex' = Wake(ex, c) /\ owed' = owed \cup ({c} \cap Live(ex)) /\ pc' = pc
        /\ spare' \in {spare, spare - 1} /\ spare' >= 0
    BY <1>4 DEF WakeCoroutine, MayWake, Spend
  <2>2. /\ ExecutorType(ex') /\ QueuesTyped(ex') /\ Frame(ex, ex') /\ ex'.delay = ex.delay
    BY <1>t, <1>s, <2>1, WakeFacts
  <2>3. Live(ex') = Live(ex) /\ IdsMatch(ex')
    BY <1>s, <2>1, <2>2 DEF Live, Frame, IdsMatch
  <2>4. TypeOK'  BY <1>t, <2>1, <2>2 DEF TypeOK
  <2>5. Safe'  BY <1>s, <2>1, <2>2, <2>3 DEF Safe, Frame
  <2> QED  BY <2>4, <2>5 DEF Base
<1>5. ASSUME PossibleSwitch  PROVE Base'
  <2> DEFINE e == ActualWake(ex)
  <2>1. Ok /\ pc = "run"  BY <1>5 DEF PossibleSwitch
  <2>2. /\ ExecutorType(e) /\ QueuesTyped(e) /\ Frame(ex, e) /\ e.delay = {}
    BY <1>t, <1>s, <2>1, ActualWakeFacts
  <2>3. \/ /\ ex' = Wake(e, ex.current) /\ owed' = owed \cup {ex.current} /\ pc' = "fetch"
           /\ spare' \in {spare, spare - 1} /\ spare' >= 0
        \/ ex' = e /\ UNCHANGED <<pc, owed, spare>>
    BY <1>5 DEF PossibleSwitch, SwitchPossible, MayWake, Spend
  <2>c. ex.current \in Live(ex) /\ ex.current \in TaskIds  BY <1>s, <2>1, LiveTyped
  <2> HIDE DEF e
  <2>4. ExecutorType(ex') /\ QueuesTyped(ex') /\ Frame(ex, ex') /\ ex'.delay = {}
    <3>1. CASE ex' = e  BY <2>2, <3>1
    <3>2. CASE ex' = Wake(e, ex.current)
      <4> DEFINE w == Wake(e, ex.current)
      <4>1. ExecutorType(w) /\ QueuesTyped(w) /\ Frame(e, w) /\ w.delay = e.delay
        BY <2>2, <2>c, WakeFacts
      <4> HIDE DEF w
      <4> QED  BY <2>2, <3>2, <4>1 DEF w, Frame
    <3> QED  BY <2>3, <3>1, <3>2
  <2>5. Live(ex') = Live(ex) /\ IdsMatch(ex') /\ ex'.current = ex.current
    BY <1>s, <2>1, <2>4 DEF Live, Frame, IdsMatch
  <2>6. TypeOK'  BY <1>t, <2>c, <2>3, <2>4 DEF TypeOK
  <2>7. Safe'  BY <1>s, <2>1, <2>c, <2>3, <2>4, <2>5 DEF Safe
  <2> QED  BY <2>6, <2>7 DEF Base
<1>6. ASSUME Finish  PROVE Base'
  <2>1. /\ Ok /\ pc = "run" /\ ex' = RemoveTask(ex, ex.current) /\ pc' = "fetch"
        /\ owed' = owed \ {ex.current} /\ spare' \in {spare, spare - 1} /\ spare' >= 0
    BY <1>6 DEF Finish, Spend
  <2>2. /\ ExecutorType(ex') /\ IdsMatch(ex') /\ ex'.ready = ex.ready /\ ex'.delay = ex.delay
        /\ Live(ex') = Live(ex) \ {ex.current}
    BY <1>t, <1>s, <2>1, RemoveTaskFacts
  <2>3. TypeOK'  BY <1>t, <2>1, <2>2 DEF TypeOK
  <2>4. Safe'  BY <1>s, <2>1, <2>2 DEF Safe, QueuesTyped
  <2> QED  BY <2>3, <2>4 DEF Base
<1>7. ASSUME NEW c \in Receivers, Interrupt(c)  PROVE Base'
  <2>0. c \in 0 .. WordBits - 1 /\ c < WordBits /\ c \in TaskIds
    BY RuntimeAssumption, Constants
  <2>1. /\ Ok /\ ex' = [ex EXCEPT !.delay = @ \cup {c}] /\ pc' = pc
        /\ owed' = owed \cup ({c} \cap Live(ex)) /\ spare' \in {spare, spare - 1}
        /\ spare' >= 0
    BY <1>7, <2>0 DEF Interrupt, DelayWake, MayWake, Spend
  <2>2. /\ ExecutorType(ex') /\ ex'.delay = ex.delay \cup {c} /\ ex'.ready = ex.ready
        /\ ex'.tasks = ex.tasks /\ ex'.num = ex.num /\ ex'.ids = ex.ids
        /\ ex'.current = ex.current
    BY <1>t, <2>0, <2>1 DEF ExecutorType
  <2>3. Live(ex') = Live(ex)  BY <2>2 DEF Live
  <2>4. IdsMatch(ex')  BY <1>s, <2>1, <2>2, <2>3 DEF IdsMatch
  <2>5. TypeOK'  BY <1>t, <2>0, <2>1, <2>2 DEF TypeOK
  <2>6. Safe'  BY <1>s, <2>1, <2>2, <2>3, <2>4 DEF Safe, QueuesTyped
  <2> QED  BY <2>5, <2>6 DEF Base
<1>8. CASE UNCHANGED vars
  BY <1>t, <1>s, <1>8 DEF vars, Base, Safe, TypeOK, Ok
<1> QED  BY <1>1, <1>2, <1>3, <1>4, <1>5, <1>6, <1>7, <1>8 DEF Next, Step

-----------------------------------------------------------------------------
(* Disciplined programs. *)

(* What fetch does to an executor whose structure is exact: it returns     *)
(* nothing only when nothing is ready, and otherwise the first coroutine   *)
(* of the highest priority that has one.                                   *)
LEMMA FetchExact ==
    ASSUME NEW x, ExecutorType(x), QueuesTyped(x), Exact(x), Fits(x), ~x.panic,
           x.delay \subseteq Live(x), \A q \in Prios : x.delay \cap Queued(x, q) = {}
    PROVE  LET f == Fetch(x)
           IN  /\ Exact(f.ex) /\ ~f.ex.panic
               /\ \A q \in Prios : /\ Queued(f.ex, q) \subseteq Queued(x, q) \cup x.delay
                                   /\ f.got \notin Queued(f.ex, q)
               /\ f.got = NoCid => f.ex.bitmap = {}
               /\ f.got # NoCid => \A q \in Prios :
                     f.ex.ready[q] # <<>> => q >= f.ex.tasks[f.ex.current]
<1> DEFINE e == ActualWake(x)
           f == Fetch(x)
<1>1. Exact(e) /\ ~e.panic  BY ActualWakeExact
<1>2. /\ ExecutorType(e) /\ QueuesTyped(e)
      /\ \A q \in Prios : Queued(e, q) \subseteq Queued(x, q) \cup x.delay
  BY ActualWakeFacts
<1>3. \/ e.bitmap = {} /\ f.ex = e /\ f.got = NoCid
      \/ \E p \in e.bitmap : (\A q \in e.bitmap : p <= q) /\ Popped(e, f, p)
  BY FetchCases
<1> HIDE DEF e, f
<1>4. CASE e.bitmap = {} /\ f.ex = e /\ f.got = NoCid
  <2>1. \A q \in Prios : Queued(e, q) = {}
    <3>1. \A q \in Prios : e.ready[q] = <<>>  BY <1>1, <1>4 DEF Exact
    <3>2. DOMAIN <<>> = {}  OBVIOUS
    <3> QED  BY <3>1, <3>2 DEF Queued
  <2> QED  BY <1>1, <1>4, <2>1 DEF f
<1>5. CASE \E p \in e.bitmap : (\A q \in e.bitmap : p <= q) /\ Popped(e, f, p)
  <2>1. PICK p \in e.bitmap : (\A q \in e.bitmap : p <= q) /\ Popped(e, f, p)  BY <1>5
  <2>2. p \in Prios /\ p \in Nat  BY <1>2, Constants DEF ExecutorType
  <2>3. /\ Exact(f.ex)
        /\ f.got \in Live(e) /\ e.tasks[f.got] = p /\ f.ex.current = f.got
        /\ \A q \in Prios : f.got \notin Queued(f.ex, q)
    BY <1>1, <1>2, <2>1, <2>2, PoppedExact
  <2>4. \A q \in Prios : Queued(f.ex, q) \subseteq Queued(e, q)
    BY <1>2, <2>1, <2>2, PoppedQueued
  <2>5. ~f.ex.panic /\ f.ex.tasks = e.tasks  BY <1>1, <2>1 DEF Popped
  <2>6. f.got # NoCid  BY <2>3, LiveTyped, Constants
  <2>7. ASSUME NEW q \in Prios, f.ex.ready[q] # <<>>  PROVE q >= p
    <3>1. CASE q = p  BY <2>2, <3>1
    <3>2. CASE q # p
      <4>1. e.ready[q] # <<>>  BY <2>1, <2>7, <3>2 DEF Popped
      <4>2. q \in e.bitmap  BY <1>1, <4>1 DEF Exact
      <4> QED  BY <2>1, <2>2, <4>2, Constants
    <3> QED  BY <3>1, <3>2
  <2> QED  BY <1>2, <2>3, <2>4, <2>5, <2>6, <2>7 DEF f
<1> QED  BY <1>3, <1>4, <1>5

LEMMA CalmInit == Init => Calm
BY NewFacts DEF Init, Calm, Ok

LEMMA CalmStep == Base /\ Calm /\ [Next]_vars => Calm'
<1> SUFFICES ASSUME Base, Calm, [Next]_vars, disciplined'  PROVE Calm'
  BY DEF Calm
<1>d. disciplined  BY DEF Next, vars
<1>t. ExecutorType(ex) /\ owed \subseteq TaskIds  BY DEF Base, TypeOK
<1>c. /\ Ok /\ spare = 0 /\ Exact(ex) /\ Fits(ex) /\ ex.delay \subseteq owed
      /\ \A p \in Prios : Queued(ex, p) \subseteq owed
      /\ \A p \in Prios : ex.delay \cap Queued(ex, p) = {}
  BY <1>d DEF Calm
<1>s. /\ QueuesTyped(ex) /\ IdsMatch(ex) /\ owed \subseteq Live(ex) /\ ~ex.panic
      /\ ex.delay \subseteq Live(ex)
      /\ pc = "run" => ex.current \in Live(ex)
  BY <1>c DEF Base, Safe, Ok
<1>1. ASSUME NEW prio \in Prios, SpawnCoroutine(prio)  PROVE Calm'
  <2>1. /\ ex' = Spawn(ex, prio) /\ owed' = owed \cup (Live(ex') \ Live(ex))
        /\ spare' = spare /\ Cardinality(Live(ex)) < MaxTask - 1
    BY <1>1, <1>d DEF SpawnCoroutine
  <2>2. Exact(ex') /\ ~ex'.panic  BY <1>t, <1>c, <1>s, <2>1, SpawnFits
  <2>3. PICK c \in TaskIds : Spawned(ex, ex', prio, c)  BY <1>t, <2>1, <2>2, SpawnFacts
  <2>4. /\ c \notin Live(ex) /\ Live(ex') = Live(ex) \cup {c}
        /\ Cardinality(Live(ex')) = Cardinality(Live(ex)) + 1
        /\ \A p \in Prios : \A d \in Queued(ex', p) : d \in Queued(ex, p) \/ d = c
    BY <1>t, <1>s, <2>3, SpawnedMatch
  <2>5. ex'.delay = ex.delay  BY <2>3 DEF Spawned
  <2>6. Fits(ex')  BY <2>1, <2>4, LiveFinite, Constants DEF Fits
  <2>7. owed' = owed \cup {c} /\ c \notin ex.delay  BY <1>s, <2>1, <2>4
  <2>8. \A p \in Prios : Queued(ex', p) \subseteq owed' /\ ex'.delay \cap Queued(ex', p) = {}
    BY <1>c, <2>4, <2>5, <2>7
  <2> QED  BY <1>c, <2>1, <2>2, <2>5, <2>6, <2>7, <2>8 DEF Calm, Ok
<1>2. ASSUME Enter \/ Yield  PROVE Calm'
  BY <1>2, <1>c DEF Enter, Yield, Calm, Ok
<1>3. ASSUME FetchNext  PROVE Calm'
  <2> DEFINE f == Fetch(ex)
  <2>1. ex' = f.ex /\ owed' = owed \ {f.got} /\ spare' = spare
    BY <1>3 DEF FetchNext
  <2>2. /\ Exact(f.ex) /\ ~f.ex.panic
        /\ \A q \in Prios : /\ Queued(f.ex, q) \subseteq Queued(ex, q) \cup ex.delay
                            /\ f.got \notin Queued(f.ex, q)
    BY <1>t, <1>c, <1>s, FetchExact
  <2>3. f.ex.tasks = ex.tasks /\ f.ex.delay = {}  BY <1>t, <1>s, FetchFacts
  <2> HIDE DEF f
  <2>4. Fits(ex')  BY <1>c, <2>1, <2>3 DEF Fits, Live
  <2> QED  BY <1>c, <2>1, <2>2, <2>3, <2>4 DEF Calm, Ok
<1>4. ASSUME NEW c \in TaskIds, WakeCoroutine(c)  PROVE Calm'
  <2>1. /\ ex' = Wake(ex, c) /\ owed' = owed \cup ({c} \cap Live(ex))
        /\ c \in Live(ex) \ owed /\ spare' = 0
    BY <1>4, <1>c DEF WakeCoroutine, MayWake, Spend
  <2>2. \A q \in Prios : c \notin Queued(ex, q)  BY <1>c, <2>1
  <2>3. /\ Exact(ex') /\ ~ex'.panic /\ Frame(ex, ex') /\ ex'.delay = ex.delay
        /\ \A q \in Prios : Queued(ex', q) =
               Queued(ex, q) \cup (IF q = ex.tasks[c] THEN {c} ELSE {})
    BY <1>t, <1>c, <1>s, <2>1, <2>2, WakeExact
  <2>4. Fits(ex')  BY <1>c, <2>3 DEF Fits, Live, Frame
  <2>5. \A p \in Prios : Queued(ex', p) \subseteq owed' /\ ex'.delay \cap Queued(ex', p) = {}
    BY <1>c, <2>1, <2>3
  <2> QED  BY <1>c, <2>1, <2>3, <2>4, <2>5 DEF Calm, Ok
<1>5. ASSUME PossibleSwitch  PROVE Calm'
  <2> DEFINE e == ActualWake(ex)
  <2>1. Exact(e) /\ ~e.panic  BY <1>t, <1>c, <1>s, ActualWakeExact
  <2>2. /\ ExecutorType(e) /\ QueuesTyped(e) /\ Frame(ex, e) /\ e.delay = {}
        /\ \A q \in Prios : Queued(e, q) \subseteq Queued(ex, q) \cup ex.delay
    BY <1>t, <1>s, ActualWakeFacts
  <2>3. \/ /\ ex' = Wake(e, ex.current) /\ owed' = owed \cup {ex.current}
           /\ ex.current \in Live(ex) \ owed /\ spare' = 0
        \/ ex' = e /\ UNCHANGED <<pc, owed, spare>>
    BY <1>5, <1>c DEF PossibleSwitch, SwitchPossible, MayWake, Spend
  <2> HIDE DEF e
  <2>4. Live(e) = Live(ex) /\ Fits(e)  BY <1>c, <2>2 DEF Live, Frame, Fits
  <2>5. \A q \in Prios : Queued(e, q) \subseteq owed  BY <1>c, <2>2
  <2>6. CASE ex' = e /\ UNCHANGED <<pc, owed, spare>>
    BY <1>c, <2>1, <2>2, <2>4, <2>5, <2>6 DEF Calm, Ok
  <2>7. CASE /\ ex' = Wake(e, ex.current) /\ owed' = owed \cup {ex.current}
             /\ ex.current \in Live(ex) \ owed /\ spare' = 0
    <3> DEFINE c == ex.current
    <3>1. c \in Live(e) /\ \A q \in Prios : c \notin Queued(e, q)
      BY <2>4, <2>5, <2>7
    <3>2. /\ Exact(ex') /\ ~ex'.panic /\ Frame(e, ex') /\ ex'.delay = e.delay
          /\ \A q \in Prios : Queued(ex', q) =
                 Queued(e, q) \cup (IF q = e.tasks[c] THEN {c} ELSE {})
      BY <2>1, <2>2, <2>4, <2>7, <3>1, WakeExact
    <3>3. Fits(ex')  BY <2>4, <3>2 DEF Fits, Live, Frame
    <3>4. \A p \in Prios : Queued(ex', p) \subseteq owed' /\ ex'.delay \cap Queued(ex', p) = {}
      BY <2>2, <2>5, <2>7, <3>2
    <3> QED  BY <2>2, <2>7, <3>2, <3>3, <3>4 DEF Calm, Ok
  <2> QED  BY <2>3, <2>6, <2>7
<1>6. ASSUME Finish  PROVE Calm'
  <2> DEFINE c == ex.current
  <2>1. /\ pc = "run" /\ ex' = RemoveTask(ex, c) /\ owed' = owed \ {c} /\ c \notin owed
        /\ spare' = 0
    BY <1>6, <1>c DEF Finish, Spend
  <2>2. /\ ex'.ready = ex.ready /\ ex'.delay = ex.delay /\ ex'.bitmap = ex.bitmap
        /\ ex'.panic = ex.panic /\ ex'.tasks = [ex.tasks EXCEPT ![c] = NoTask]
        /\ Cardinality(Live(ex')) = Cardinality(Live(ex)) - 1
    BY <1>t, <1>s, <2>1, RemoveTaskFacts
  <2> HIDE DEF c
  <2>3. Fits(ex')  BY <1>c, <2>2, LiveFinite, Constants DEF Fits
  <2>4. \A p \in Prios : Queued(ex', p) = Queued(ex, p)  BY <2>2 DEF Queued
  <2>5. \A p \in Prios : \A k \in DOMAIN ex.ready[p] :
           ex'.tasks[ex.ready[p][k]] = ex.tasks[ex.ready[p][k]]
    <3>1. ASSUME NEW p \in Prios, NEW k \in DOMAIN ex.ready[p]
          PROVE  ex.ready[p][k] \in TaskIds /\ ex.ready[p][k] # c
      <4>1. ex.ready[p][k] \in Queued(ex, p)  BY DEF Queued
      <4> QED  BY <4>1, <1>c, <1>t, <2>1
    <3>2. ex.tasks \in [TaskIds -> Prios \cup {NoTask}]  BY <1>t DEF ExecutorType
    <3> QED  BY <2>2, <3>1, <3>2
  <2>6. Exact(ex')  BY <1>c, <2>2, <2>5 DEF Exact
  <2> QED  BY <1>c, <2>1, <2>2, <2>3, <2>4, <2>6 DEF Calm, Ok
<1>7. ASSUME NEW c \in Receivers, Interrupt(c)  PROVE Calm'
  <2>0. c < WordBits  BY RuntimeAssumption, Constants
  <2>1. /\ ex' = [ex EXCEPT !.delay = @ \cup {c}] /\ owed' = owed \cup ({c} \cap Live(ex))
        /\ c \in Live(ex) \ owed /\ spare' = 0
    BY <1>7, <1>c, <2>0 DEF Interrupt, DelayWake, MayWake, Spend
  <2>2. /\ ex'.delay = ex.delay \cup {c} /\ ex'.ready = ex.ready /\ ex'.bitmap = ex.bitmap
        /\ ex'.tasks = ex.tasks /\ ex'.panic = ex.panic
    BY <1>t, <2>1 DEF ExecutorType
  <2>3. /\ Exact(ex') /\ Fits(ex')
        /\ \A p \in Prios : Queued(ex', p) = Queued(ex, p)
    BY <1>c, <2>2 DEF Exact, Fits, Live, Queued
  <2>4. \A p \in Prios : c \notin Queued(ex, p)  BY <1>c, <2>1
  <2> QED  BY <1>c, <2>1, <2>2, <2>3, <2>4 DEF Calm, Ok
<1>8. CASE UNCHANGED vars
  BY <1>c, <1>8 DEF vars, Calm, Ok
<1> QED  BY <1>1, <1>2, <1>3, <1>4, <1>5, <1>6, <1>7, <1>8 DEF Next, Step

-----------------------------------------------------------------------------
(* Wakes. *)

(* Where a coroutine that is owed a run waits for it. *)
Waits(x, c) == c \in x.delay \/ \E p \in x.bitmap : c \in Queued(x, p)

(* actual_wake loses no coroutine that waits, if no bit hides another. *)
LEMMA ActualWakeWaits ==
    ASSUME NEW x, ExecutorType(x), QueuesTyped(x), NoClash(x.delay),
           NEW c \in Live(x), Waits(x, c), ~ActualWake(x).panic
    PROVE  \E p \in ActualWake(x).bitmap : c \in Queued(ActualWake(x), p)
<1> DEFINE e == ActualWake(x)
<1>1. x.bitmap \subseteq e.bitmap /\ \A p \in Prios : Queued(x, p) \subseteq Queued(e, p)
  BY ActualWakeFacts
<1>2. \A d \in x.delay : x.tasks[d] # NoTask =>
         x.tasks[d] \in e.bitmap /\ d \in Queued(e, x.tasks[d])
  BY ActualWakeAll
<1>3. x.tasks[c] # NoTask  BY DEF Live
<1>4. x.bitmap \subseteq Prios  BY DEF ExecutorType
<1> HIDE DEF e
<1>5. CASE c \in x.delay  BY <1>2, <1>3, <1>5 DEF e
<1>6. CASE \E p \in x.bitmap : c \in Queued(x, p)  BY <1>1, <1>4, <1>6 DEF e
<1> QED  BY <1>5, <1>6 DEF Waits

(* fetch neither: whoever waited is returned or still waits. *)
LEMMA FetchWaits ==
    ASSUME NEW x, ExecutorType(x), QueuesTyped(x), NoClash(x.delay),
           NEW c \in Live(x), Waits(x, c), ~Fetch(x).ex.panic, c # Fetch(x).got
    PROVE  Waits(Fetch(x).ex, c)
<1> DEFINE e == ActualWake(x)
           f == Fetch(x)
<1>1. /\ ExecutorType(e) /\ QueuesTyped(e) /\ e.tasks = x.tasks
  BY ActualWakeFacts DEF Frame
<1>2. ~e.panic /\ ~f.ex.panic /\ c # f.got  BY FetchFacts
<1>3. PICK q \in e.bitmap : c \in Queued(e, q)  BY <1>2, ActualWakeWaits
<1>4. \/ e.bitmap = {} /\ f.ex = e /\ f.got = NoCid
      \/ \E p \in e.bitmap : Popped(e, f, p)
  BY FetchCases
<1>5. e.tasks[c] # NoTask  BY <1>1 DEF Live
<1>6. e.bitmap \subseteq Prios  BY <1>1 DEF ExecutorType
<1> HIDE DEF e, f
<1>7. PICK p \in e.bitmap : Popped(e, f, p)  BY <1>3, <1>4
<1>8. c \in Queued(f.ex, q) /\ q \in f.ex.bitmap
  BY <1>1, <1>2, <1>3, <1>5, <1>6, <1>7, PoppedQueued
<1> QED  BY <1>8 DEF Waits, f

(* A wake makes its coroutine wait, and takes no other away. *)
LEMMA WakeWaits ==
    ASSUME NEW x, ExecutorType(x), NEW c \in TaskIds, ~Wake(x, c).panic
    PROVE  /\ c \in Live(x) => Waits(Wake(x, c), c)
           /\ \A d \in TaskIds : Waits(x, d) => Waits(Wake(x, c), d)
<1> DEFINE e == Wake(x, c)
<1>1. /\ e.delay = x.delay /\ x.bitmap \subseteq e.bitmap
      /\ \A p \in Prios : Queued(x, p) \subseteq Queued(e, p)
      /\ x.tasks[c] # NoTask => x.tasks[c] \in e.bitmap /\ c \in Queued(e, x.tasks[c])
  BY WakeFacts
<1>2. x.bitmap \subseteq Prios  BY DEF ExecutorType
<1> HIDE DEF e
<1> QED  BY <1>1, <1>2 DEF Waits, Live, e

LEMMA NoLostWakeStep ==
    ASSUME NoClash(Receivers)
    PROVE  Base /\ NoLostWake /\ [Next]_vars => NoLostWake'
<1> SUFFICES ASSUME Base, NoLostWake, [Next]_vars, Ok'
             PROVE  \A c \in owed' : Waits(ex', c)
  BY DEF NoLostWake, Waits
<1>t. ExecutorType(ex) /\ owed \subseteq TaskIds  BY DEF Base, TypeOK
<1>s. Ok => /\ QueuesTyped(ex) /\ IdsMatch(ex)
            /\ pc = "run" => ex.current \in Live(ex)
            /\ owed \subseteq Live(ex)
            /\ NoClash(ex.delay)
  BY DEF Base, Safe, NoClash
<1>w. Ok => \A c \in owed : Waits(ex, c)  BY DEF NoLostWake, Waits
<1>p. ~ex'.panic  BY DEF Ok
<1>1. ASSUME NEW prio \in Prios, SpawnCoroutine(prio)  PROVE \A c \in owed' : Waits(ex', c)
  <2>1. ex' = Spawn(ex, prio) /\ owed' = owed \cup (Live(ex') \ Live(ex)) /\ Ok
    BY <1>1 DEF SpawnCoroutine
  <2>2. PICK c \in TaskIds : Spawned(ex, ex', prio, c)  BY <1>t, <1>p, <2>1, SpawnFacts
  <2>3. /\ Live(ex') = Live(ex) \cup {c}
        /\ c \in Queued(ex', prio) /\ prio \in ex'.bitmap
        /\ \A p \in Prios : Queued(ex, p) \subseteq Queued(ex', p)
    BY <1>t, <1>s, <2>1, <2>2, SpawnedMatch
  <2>4. ex'.delay = ex.delay /\ ex.bitmap \subseteq ex'.bitmap  BY <2>2 DEF Spawned
  <2>5. ex.bitmap \subseteq Prios  BY <1>t DEF ExecutorType
  <2>6. \A d \in owed : Waits(ex', d)  BY <1>w, <2>1, <2>3, <2>4, <2>5 DEF Waits
  <2>7. Waits(ex', c)  BY <2>3 DEF Waits
  <2> QED  BY <2>1, <2>3, <2>6, <2>7
<1>2. ASSUME Enter \/ Yield  PROVE \A c \in owed' : Waits(ex', c)
  BY <1>2, <1>w DEF Enter, Yield
<1>3. ASSUME FetchNext  PROVE \A c \in owed' : Waits(ex', c)
  <2>1. Ok /\ ex' = Fetch(ex).ex /\ owed' = owed \ {Fetch(ex).got}
    BY <1>3 DEF FetchNext
  <2> QED  BY <1>t, <1>s, <1>w, <1>p, <2>1, FetchWaits
<1>4. ASSUME NEW c \in TaskIds, WakeCoroutine(c)  PROVE \A d \in owed' : Waits(ex', d)
  <2>1. Ok /\ ex' = Wake(ex, c) /\ owed' = owed \cup ({c} \cap Live(ex))
    BY <1>4 DEF WakeCoroutine
  <2> QED  BY <1>t, <1>w, <1>p, <2>1, WakeWaits
<1>5. ASSUME PossibleSwitch  PROVE \A c \in owed' : Waits(ex', c)
  <2> DEFINE e == ActualWake(ex)
  <2>1. Ok /\ pc = "run"  BY <1>5 DEF PossibleSwitch
  <2>2. \/ ex' = Wake(e, ex.current) /\ owed' = owed \cup {ex.current}
        \/ ex' = e /\ owed' = owed
    BY <1>5 DEF PossibleSwitch, SwitchPossible
  <2>3. ExecutorType(e) /\ Frame(ex, e)  BY <1>t, <1>s, <2>1, ActualWakeFacts
  <2>4. ex.current \in Live(e) /\ ex.current \in TaskIds
    BY <1>s, <2>1, <2>3 DEF Live, Frame
  <2>5. ~e.panic
    <3>1. CASE ex' = e  BY <1>p, <3>1
    <3>2. CASE ex' = Wake(e, ex.current)
      BY <1>p, <2>3, <2>4, <3>2, WakeFacts
    <3> QED  BY <2>2, <3>1, <3>2
  <2>6. \A c \in owed : Waits(e, c)
    BY <1>t, <1>s, <1>w, <2>1, <2>5, ActualWakeWaits DEF Waits
  <2> HIDE DEF e
  <2>7. CASE ex' = Wake(e, ex.current) /\ owed' = owed \cup {ex.current}
    BY <1>t, <1>p, <2>3, <2>4, <2>6, <2>7, WakeWaits
  <2> QED  BY <2>2, <2>6, <2>7
<1>6. ASSUME Finish  PROVE \A c \in owed' : Waits(ex', c)
  <2>1. Ok /\ pc = "run" /\ ex' = RemoveTask(ex, ex.current) /\ owed' = owed \ {ex.current}
    BY <1>6 DEF Finish
  <2>2. ex'.ready = ex.ready /\ ex'.delay = ex.delay /\ ex'.bitmap = ex.bitmap
    BY <1>t, <1>s, <2>1, RemoveTaskFacts
  <2> QED  BY <1>w, <2>1, <2>2 DEF Waits, Queued
<1>7. ASSUME NEW c \in Receivers, Interrupt(c)  PROVE \A d \in owed' : Waits(ex', d)
  <2>0. c < WordBits  BY RuntimeAssumption, Constants
  <2>1. /\ Ok /\ ex' = [ex EXCEPT !.delay = @ \cup {c}] /\ owed' = owed \cup ({c} \cap Live(ex))
    BY <1>7, <2>0 DEF Interrupt, DelayWake
  <2>2. ex'.delay = ex.delay \cup {c} /\ ex'.ready = ex.ready /\ ex'.bitmap = ex.bitmap
    BY <1>t, <2>1 DEF ExecutorType
  <2> QED  BY <1>w, <2>1, <2>2 DEF Waits, Queued
<1>8. CASE UNCHANGED vars
  BY <1>w, <1>p, <1>8 DEF vars, Ok
<1> QED  BY <1>1, <1>2, <1>3, <1>4, <1>5, <1>6, <1>7, <1>8 DEF Next, Step

-----------------------------------------------------------------------------
(* Theorems. *)

(* For every program: coroutine_num, the task array and the id allocator   *)
(* agree, so spawn never hands out an id in use and remove_task never      *)
(* takes coroutine_num below zero; and execute always finds the coroutine  *)
(* that fetch returned.                                                    *)
THEOREM TasksAlwaysMatchIds == Spec => []TasksMatchIds
<1>1. Base => TasksMatchIds  BY DEF Base, Safe, TasksMatchIds, IdsMatch
<1> QED  BY <1>1, BaseInit, BaseStep, PTL DEF Spec

(* A program that never wakes a woken coroutine, and keeps fewer than      *)
(* MAX_TASK_NUM - 1 of them when it spawns, never makes an unwrap, assert  *)
(* or index of the executor panic.                                         *)
THEOREM DisciplineMeansNoPanic == Spec => []NoPanic
<1>1. Calm => NoPanic  BY DEF Calm, NoPanic
<1> QED  BY <1>1, BaseInit, BaseStep, CalmInit, CalmStep, PTL DEF Spec

(* For such a program the priority bit map and the ready queues always     *)
(* agree, and a queue holds live coroutines of its priority, each once.    *)
THEOREM DisciplineMeansExact == Spec => []ReadyExact
<1>1. Calm => ReadyExact  BY DEF Calm, ReadyExact
<1> QED  BY <1>1, BaseInit, BaseStep, CalmInit, CalmStep, PTL DEF Spec

(* For every program, disciplined or not: no wake is lost, neither a call  *)
(* of wake nor one that the interrupt handler left in delay_wake_cids,     *)
(* provided no receiver's id is twice another's.  (Without the proviso     *)
(* actual_wake does lose wakes.)                                           *)
THEOREM NoWakeIsLost ==
    ASSUME NoClash(Receivers)
    PROVE  Spec => []NoLostWake
<1>1. Init => NoLostWake  BY DEF Init, NoLostWake
<1>2. Base /\ NoLostWake /\ [Next]_vars => NoLostWake'  BY NoLostWakeStep
<1> QED  BY <1>1, <1>2, BaseInit, BaseStep, PTL DEF Spec

(* For a disciplined program run_until_blocked returns to the main code    *)
(* only when no woken coroutine is left behind, under the same proviso.    *)
THEOREM RunsUntilBlocked ==
    ASSUME NoClash(Receivers)
    PROVE  Spec => ReturnsOnlyBlocked
<1>1. ASSUME Base, Calm, NoLostWake, NoLostWake', [Next]_vars,
             disciplined, pc = "fetch", pc' = "main"
      PROVE  owed' = {}
  <2>1. FetchNext
    BY <1>1 DEF Next, Step, SpawnCoroutine, Enter, WakeCoroutine, PossibleSwitch, Yield,
                Finish, Interrupt, vars
  <2> DEFINE f == Fetch(ex)
  <2>2. ex' = f.ex /\ ~f.ex.panic /\ f.got = NoCid  BY <1>1, <2>1 DEF FetchNext
  <2>3. ExecutorType(ex) /\ QueuesTyped(ex) /\ owed \subseteq Live(ex)
    BY <1>1 DEF Base, TypeOK, Safe, Calm
  <2>4. /\ Exact(ex) /\ Fits(ex) /\ ~ex.panic /\ ex.delay \subseteq Live(ex)
        /\ \A p \in Prios : ex.delay \cap Queued(ex, p) = {}
    BY <1>1, <2>3 DEF Calm, Ok
  <2>5. f.got = NoCid => f.ex.bitmap = {}  BY <2>3, <2>4, FetchExact
  <2>6. f.ex.delay = {}  BY <2>3, FetchFacts
  <2> HIDE DEF f
  <2> QED  BY <1>1, <2>2, <2>5, <2>6 DEF NoLostWake, Ok
<1>2. Init => NoLostWake  BY DEF Init, NoLostWake
<1>3. Base /\ NoLostWake /\ [Next]_vars => NoLostWake'  BY NoLostWakeStep
<1>4. Base /\ Calm /\ NoLostWake /\ NoLostWake' /\ [Next]_vars =>
         [disciplined /\ pc = "fetch" /\ pc' = "main" => owed' = {}]_vars
  BY <1>1
<1> QED
  BY <1>2, <1>3, <1>4, BaseInit, BaseStep, CalmInit, CalmStep, PTL DEF Spec, ReturnsOnlyBlocked

(* For a disciplined program fetch returns a coroutine of priority p only  *)
(* when no queue of a higher priority holds anything, the wakes that the   *)
(* interrupt handler delayed included.                                     *)
THEOREM HighestPriorityRuns == Spec => HighestPriorityFirst
<1>1. ASSUME Base, Calm, [Next]_vars,
             disciplined, pc = "fetch", pc' = "run", ~ex'.panic
      PROVE  \A p \in Prios : ex'.ready[p] # <<>> => p >= ex'.tasks[ex'.current]
  <2>1. FetchNext
    BY <1>1 DEF Next, Step, SpawnCoroutine, Enter, WakeCoroutine, PossibleSwitch, Yield,
                Finish, Interrupt, vars
  <2> DEFINE f == Fetch(ex)
  <2>2. ex' = f.ex /\ f.got # NoCid  BY <1>1, <2>1 DEF FetchNext
  <2>3. ExecutorType(ex) /\ QueuesTyped(ex) /\ owed \subseteq Live(ex)
    BY <1>1 DEF Base, TypeOK, Safe, Calm
  <2>4. /\ Exact(ex) /\ Fits(ex) /\ ~ex.panic /\ ex.delay \subseteq Live(ex)
        /\ \A p \in Prios : ex.delay \cap Queued(ex, p) = {}
    BY <1>1, <2>3 DEF Calm, Ok
  <2>5. f.got # NoCid => \A q \in Prios :
           f.ex.ready[q] # <<>> => q >= f.ex.tasks[f.ex.current]
    BY <2>3, <2>4, FetchExact
  <2> HIDE DEF f
  <2> QED  BY <2>2, <2>5
<1>2. Base /\ Calm /\ [Next]_vars =>
         [disciplined /\ pc = "fetch" /\ pc' = "run" /\ ~ex'.panic =>
            \A p \in Prios : ex'.ready[p] # <<>> => p >= ex'.tasks[ex'.current]]_vars
  BY <1>1
<1> QED
  BY <1>2, BaseInit, BaseStep, CalmInit, CalmStep, PTL DEF Spec, HighestPriorityFirst
=============================================================================
