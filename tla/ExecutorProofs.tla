-------------------------- MODULE ExecutorProofs --------------------------
(***************************************************************************)
(* Facts about the operators of Executor, for the proofs about the threads *)
(* that run one: what a method changes and what it leaves alone.           *)
(***************************************************************************)
EXTENDS Executor, SequenceTheorems, FiniteSetTheorems, WellFoundedInduction, TLAPS

(* A set of naturals that is not empty has a least element. *)
LEMMA Least ==
    ASSUME NEW T \in SUBSET Nat, T # {}
    PROVE  \E x \in T : \A y \in T : x <= y
<1> DEFINE R == {ss \in Nat \X Nat : ss[1] < ss[2]}
<1>1. IsWellFoundedOn(R, Nat)
  BY NatLessThanWellFounded DEF OpToRel
<1>2. \E x \in T : \A y \in T : ~ (<<y, x>> \in R)
  <2> HIDE DEF R
  <2> QED  BY <1>1, WFMin
<1>3. ASSUME NEW x \in T, NEW y \in T, ~ (<<y, x>> \in R)
      PROVE  x <= y
  BY <1>3
<1> QED  BY <1>2, <1>3

(* Induction up to n, with a set in place of a predicate. *)
LEMMA UpTo ==
    ASSUME NEW n \in Nat, NEW S, 0 \in S, \A i \in 0 .. n - 1 : i \in S => i + 1 \in S
    PROVE  \A i \in 0 .. n : i \in S
<1> SUFFICES ASSUME NEW k \in 0 .. n, k \notin S  PROVE FALSE
  OBVIOUS
<1> DEFINE T == (0 .. n) \ S
<1>1. PICK x \in T : \A y \in T : x <= y
  <2> T \in SUBSET Nat /\ T # {}  OBVIOUS
  <2> HIDE DEF T
  <2> QED  BY Least
<1>2. x # 0 /\ x - 1 \in 0 .. n - 1  OBVIOUS
<1>3. x - 1 \in S  BY <1>1, <1>2
<1> QED  BY <1>2, <1>3

(* find_first_one is the least bit that is set. *)
LEMMA FirstOne ==
    ASSUME NEW bits \in SUBSET Nat, bits # {}
    PROVE  /\ find_first_one(bits) \in bits
           /\ \A d \in bits : find_first_one(bits) <= d
BY Least DEF find_first_one

-----------------------------------------------------------------------------
(* The loops. *)

(* The turns of actual_wake's loop, one after the other. *)
LEMMA WakeLoopTurns ==
    ASSUME NEW ex
    PROVE  /\ WakeLoop(ex)[0] = [ex |-> [ex EXCEPT !.delay = {}], word |-> ex.delay]
           /\ \A i \in 0 .. WordBits - 1 :
                 WakeLoop(ex)[i + 1] = WakeBit(WakeLoop(ex)[i], i)
<1> DEFINE base == [ex |-> [ex EXCEPT !.delay = {}], word |-> ex.delay]
           Turns(g, n) == g = [i \in 0 .. n |-> IF i = 0 THEN base
                                                ELSE WakeBit(g[i - 1], i - 1)]
           S == {n \in Nat : \E g : Turns(g, n)}
<1>w. WordBits \in Nat  BY ExecutorAssumption
<1> HIDE DEF base
<1>1. 0 \in S
  <2>1. Turns([i \in 0 .. 0 |-> base], 0)  OBVIOUS
  <2> QED  BY <2>1
<1>2. ASSUME NEW n \in 0 .. WordBits - 1, n \in S  PROVE n + 1 \in S
  <2>1. PICK g : Turns(g, n)  BY <1>2
  <2> DEFINE h == [i \in 0 .. n + 1 |-> IF i <= n THEN g[i] ELSE WakeBit(g[n], n)]
  <2>2. Turns(h, n + 1)
    <3>1. ASSUME NEW i \in 0 .. n + 1
          PROVE  h[i] = IF i = 0 THEN base ELSE WakeBit(h[i - 1], i - 1)
      <4>1. CASE i = 0  BY <2>1, <4>1
      <4>2. CASE i \in 1 .. n  BY <2>1, <4>2
      <4>3. CASE i = n + 1  BY <2>1, <4>3
      <4> QED  BY <4>1, <4>2, <4>3
    <3> QED  BY <3>1
  <2>3. n + 1 \in Nat  OBVIOUS
  <2> HIDE DEF h, Turns
  <2> QED  BY <2>2, <2>3
<1>3. WordBits \in S
  <2> HIDE DEF S
  <2> QED  BY <1>1, <1>2, <1>w, UpTo
<1>4. Turns(WakeLoop(ex), WordBits)
  <2>1. PICK g : Turns(g, WordBits)  BY <1>3
  <2>2. WakeLoop(ex) = CHOOSE h : Turns(h, WordBits)
    BY DEF WakeLoop, base
  <2> QED  BY <2>1, <2>2
<1>5. ASSUME NEW i \in 0 .. WordBits - 1
      PROVE  WakeLoop(ex)[i + 1] = WakeBit(WakeLoop(ex)[i], i)
  BY <1>4, <1>w
<1>6. WakeLoop(ex)[0] = base  BY <1>4, <1>w
<1> QED  BY <1>5, <1>6 DEF base

-----------------------------------------------------------------------------
(* One method at a time. *)

(* What no wake touches. *)
Frame(ex, e) ==
    /\ e.tasks = ex.tasks
    /\ e.num = ex.num
    /\ e.current = ex.current
    /\ e.ids = ex.ids

(* The queues hold ids that index the task array. *)
QueuesTyped(ex) == ex.ready \in [Prios -> Seq(TaskIds)]

LEMMA Constants ==
    /\ MaxCid \in Nat \ {0} /\ MaxTask \in Nat \ {0} /\ MaxPrio \in Nat \ {0}
    /\ WordBits \in Nat \ {0} /\ WordBits <= MaxTask /\ MaxTask <= MaxCid
    /\ TaskIds \subseteq Cids /\ 0 .. WordBits - 1 \subseteq TaskIds
    /\ TaskIds \subseteq Nat /\ Cids \subseteq Nat /\ Prios \subseteq Nat
    /\ NoTask \notin Prios /\ NoCid \notin TaskIds
BY ExecutorAssumption DEF TaskIds, Cids, Prios, NoTask, NoCid

LEMMA AppendFacts ==
    ASSUME NEW S, NEW s \in Seq(S), NEW c \in S
    PROVE  /\ Append(s, c) \in Seq(S) /\ Append(s, c) # <<>>
           /\ Len(s) \in Nat /\ Len(Append(s, c)) = Len(s) + 1
           /\ DOMAIN s = 1 .. Len(s) /\ DOMAIN Append(s, c) = 1 .. Len(s) + 1
           /\ \A k \in 1 .. Len(s) : Append(s, c)[k] = s[k]
           /\ Append(s, c)[Len(s) + 1] = c
<1>1. Append(s, c) \in Seq(S) /\ Len(Append(s, c)) = Len(s) + 1 /\ Len(s) \in Nat
  OBVIOUS
<1>2. Append(s, c) # <<>>  BY <1>1, EmptySeq
<1>3. DOMAIN s = 1 .. Len(s) /\ DOMAIN Append(s, c) = 1 .. Len(s) + 1
  BY <1>1, LenProperties
<1>4. \A k \in 1 .. Len(s) : Append(s, c)[k] = s[k]  OBVIOUS
<1>5. Append(s, c)[Len(s) + 1] = c  OBVIOUS
<1> QED  BY <1>1, <1>2, <1>3, <1>4, <1>5

LEMMA TailFacts ==
    ASSUME NEW S, NEW s \in Seq(S), s # <<>>
    PROVE  /\ Head(s) = s[1] /\ Head(s) \in S
           /\ Tail(s) \in Seq(S)
           /\ Len(s) \in Nat \ {0} /\ Len(Tail(s)) = Len(s) - 1
           /\ DOMAIN s = 1 .. Len(s) /\ DOMAIN Tail(s) = 1 .. Len(s) - 1
           /\ \A k \in 1 .. Len(s) - 1 : Tail(s)[k] = s[k + 1]
           /\ Tail(s) = <<>> <=> Len(s) = 1
<1>1. /\ Head(s) \in S /\ Tail(s) \in Seq(S) /\ Len(Tail(s)) = Len(s) - 1
      /\ \A k \in 1 .. Len(Tail(s)) : Tail(s)[k] = s[k + 1]
  BY HeadTailProperties
<1>2. Len(s) \in Nat \ {0}  BY EmptySeq
<1>3. DOMAIN s = 1 .. Len(s) /\ DOMAIN Tail(s) = 1 .. Len(s) - 1
  BY <1>1, LenProperties
<1>4. Head(s) = s[1]  OBVIOUS
<1>5. Tail(s) = <<>> <=> Len(s) = 1
  <2> DEFINE t == Tail(s)
  <2>1. t \in Seq(S) /\ Len(t) = Len(s) - 1  BY <1>1
  <2> HIDE DEF t
  <2>2. t = <<>> => Len(t) = 0  BY EmptySeq
  <2>3. t # <<>> => Len(t) \in Nat \ {0}  BY <2>1, EmptySeq
  <2>4. t = <<>> <=> Len(s) = 1  BY <1>2, <2>1, <2>2, <2>3
  <2> QED  BY <2>4 DEF t
<1> QED  BY <1>1, <1>2, <1>3, <1>4, <1>5

(* RingBuffer::push on a ready queue: the bit is set, and the id is        *)
(* appended or the thread panics.                                          *)
LEMMA PushReadyFacts ==
    ASSUME NEW ex, ExecutorType(ex), NEW p \in Prios, NEW c \in Cids
    PROVE  LET e == PushReady(ex, p, c)
           IN  /\ ExecutorType(e)
               /\ Frame(ex, e)
               /\ e.delay = ex.delay
               /\ e.bitmap = ex.bitmap \cup {p}
               /\ \/ /\ Len(ex.ready[p]) < MaxTask - 1
                     /\ e.ready = [ex.ready EXCEPT ![p] = Append(@, c)]
                     /\ e.panic = ex.panic
                  \/ /\ ~(Len(ex.ready[p]) < MaxTask - 1)
                     /\ e.ready = ex.ready
                     /\ e.panic
<1>1. ex.ready[p] \in Seq(Cids)  BY DEF ExecutorType
<1>2. Append(ex.ready[p], c) \in Seq(Cids)  BY <1>1
<1>3. [ex.ready EXCEPT ![p] = Append(@, c)] \in [Prios -> Seq(Cids)]
  BY <1>2 DEF ExecutorType
<1> QED  BY <1>3 DEF ExecutorType, PushReady, Frame

(* What a push does to the sets of queued ids. *)
LEMMA PushReadyQueued ==
    ASSUME NEW ex, ExecutorType(ex), NEW p \in Prios, NEW c \in TaskIds
    PROVE  LET e == PushReady(ex, p, c)
           IN  /\ QueuesTyped(ex) => QueuesTyped(e)
               /\ \A q \in Prios \ {p} : e.ready[q] = ex.ready[q]
               /\ Queued(ex, p) \subseteq Queued(e, p)
               /\ Queued(e, p) \subseteq Queued(ex, p) \cup {c}
               /\ ~e.panic => c \in Queued(e, p) /\ e.ready[p] = Append(ex.ready[p], c)
<1> DEFINE e == PushReady(ex, p, c)
<1>0. c \in Cids  BY Constants
<1>1. ex.ready[p] \in Seq(Cids) /\ ex.ready \in [Prios -> Seq(Cids)]  BY DEF ExecutorType
<1>2. CASE e.ready = ex.ready /\ e.panic
  BY <1>2, <1>1 DEF Queued, QueuesTyped
<1>3. CASE e.ready = [ex.ready EXCEPT ![p] = Append(@, c)]
  <2> DEFINE s == ex.ready[p]
             t == Append(s, c)
  <2>1. e.ready[p] = t /\ \A q \in Prios \ {p} : e.ready[q] = ex.ready[q]
    BY <1>3, <1>1
  <2>2. /\ Len(t) = Len(s) + 1 /\ Len(s) \in Nat
        /\ \A k \in 1 .. Len(s) : t[k] = s[k]
        /\ t[Len(s) + 1] = c
        /\ DOMAIN t = 1 .. Len(s) + 1 /\ DOMAIN s = 1 .. Len(s)
    BY <1>1, <1>0
  <2>3. QueuesTyped(ex) => QueuesTyped(e)
    <3>1. SUFFICES ASSUME QueuesTyped(ex)  PROVE QueuesTyped(e)  OBVIOUS
    <3>2. s \in Seq(TaskIds)  BY <3>1 DEF QueuesTyped
    <3>3. t \in Seq(TaskIds)  BY <3>2
    <3> QED  BY <3>1, <3>3, <1>3 DEF QueuesTyped
  <2> HIDE DEF e, s, t
  <2>4. {s[k] : k \in DOMAIN s} \subseteq {t[k] : k \in DOMAIN t}  BY <2>2
  <2>5. {t[k] : k \in DOMAIN t} \subseteq {s[k] : k \in DOMAIN s} \cup {c}  BY <2>2
  <2>6. c \in {t[k] : k \in DOMAIN t}
    <3>1. Len(s) + 1 \in DOMAIN t  BY <2>2
    <3> QED  BY <3>1, <2>2
  <2> QED  BY <2>1, <2>3, <2>4, <2>5, <2>6 DEF e, s, t, Queued
<1> QED  BY <1>0, <1>2, <1>3, PushReadyFacts

(* wake, whether or not the coroutine is alive. *)
LEMMA WakeFacts ==
    ASSUME NEW ex, ExecutorType(ex), NEW c \in TaskIds
    PROVE  LET e == Wake(ex, c)
           IN  /\ ExecutorType(e)
               /\ Frame(ex, e)
               /\ e.delay = ex.delay
               /\ QueuesTyped(ex) => QueuesTyped(e)
               /\ ex.panic => e.panic
               /\ ex.bitmap \subseteq e.bitmap
               /\ \A p \in Prios :
                     /\ Queued(ex, p) \subseteq Queued(e, p)
                     /\ Queued(e, p) \subseteq Queued(ex, p) \cup {c}
                     /\ p # ex.tasks[c] => e.ready[p] = ex.ready[p]
               /\ ex.tasks[c] # NoTask /\ ~e.panic =>
                     /\ ex.tasks[c] \in e.bitmap
                     /\ c \in Queued(e, ex.tasks[c])
<1> DEFINE e == Wake(ex, c)
<1>1. CASE ex.tasks[c] = NoTask
  BY <1>1 DEF Wake, Frame
<1>2. CASE ex.tasks[c] # NoTask
  <2> DEFINE p == ex.tasks[c]
  <2>1. p \in Prios /\ c \in Cids  BY <1>2, Constants DEF ExecutorType
  <2>2. e = PushReady(ex, p, c)  BY <1>2 DEF Wake
  <2> HIDE DEF p, e
  <2>3. /\ ExecutorType(e) /\ Frame(ex, e) /\ e.delay = ex.delay
        /\ e.bitmap = ex.bitmap \cup {p}
        /\ ex.panic => e.panic
    BY <2>1, <2>2, PushReadyFacts
  <2>4. /\ QueuesTyped(ex) => QueuesTyped(e)
        /\ \A q \in Prios \ {p} : e.ready[q] = ex.ready[q]
        /\ Queued(ex, p) \subseteq Queued(e, p)
        /\ Queued(e, p) \subseteq Queued(ex, p) \cup {c}
        /\ ~e.panic => c \in Queued(e, p)
    BY <2>1, <2>2, PushReadyQueued
  <2>5. \A q \in Prios \ {p} : Queued(e, q) = Queued(ex, q)  BY <2>4 DEF Queued
  <2> QED  BY <2>1, <2>3, <2>4, <2>5 DEF p, e
<1> QED  BY <1>1, <1>2

(* A turn of actual_wake's loop: from l to m for bit i. *)
Turn(l, m, i) ==
    /\ ExecutorType(m.ex) /\ QueuesTyped(m.ex)
    /\ m.word \subseteq l.word
    /\ \A j \in l.word : j \in m.word \/ (i \in l.word /\ j = 2 * i)
    /\ Frame(l.ex, m.ex)
    /\ m.ex.delay = l.ex.delay
    /\ l.ex.panic => m.ex.panic
    /\ l.ex.bitmap \subseteq m.ex.bitmap
    /\ \A p \in Prios :
          /\ Queued(l.ex, p) \subseteq Queued(m.ex, p)
          /\ \A c \in Queued(m.ex, p) :
                \/ c \in Queued(l.ex, p)
                \/ c = i /\ i \in l.word /\ l.ex.tasks[i] = p
    /\ i \in l.word /\ l.ex.tasks[i] # NoTask /\ ~m.ex.panic =>
          /\ l.ex.tasks[i] \in m.ex.bitmap
          /\ i \in Queued(m.ex, l.ex.tasks[i])

LEMMA WakeBitFacts ==
    ASSUME NEW l, ExecutorType(l.ex), QueuesTyped(l.ex),
           l.word \subseteq 0 .. WordBits - 1, NEW i \in 0 .. WordBits - 1
    PROVE  Turn(l, WakeBit(l, i), i)
<1> DEFINE m == WakeBit(l, i)
           e == Wake(l.ex, i)
<1>1. CASE i \notin l.word
  BY <1>1 DEF WakeBit, Frame, Turn
<1>2. CASE i \in l.word
  <2>1. m.ex = e /\ m.word = l.word \ {2 * i}  BY <1>2 DEF WakeBit
  <2>2. i \in TaskIds  BY Constants
  <2>3. /\ ExecutorType(e) /\ Frame(l.ex, e) /\ e.delay = l.ex.delay
        /\ QueuesTyped(e)
        /\ l.ex.panic => e.panic
        /\ l.ex.bitmap \subseteq e.bitmap
        /\ \A p \in Prios :
              /\ Queued(l.ex, p) \subseteq Queued(e, p)
              /\ Queued(e, p) \subseteq Queued(l.ex, p) \cup {i}
              /\ p # l.ex.tasks[i] => e.ready[p] = l.ex.ready[p]
        /\ l.ex.tasks[i] # NoTask /\ ~e.panic =>
              /\ l.ex.tasks[i] \in e.bitmap
              /\ i \in Queued(e, l.ex.tasks[i])
    BY <2>2, WakeFacts
  <2>4. ASSUME NEW p \in Prios, NEW c \in Queued(e, p)
        PROVE  c \in Queued(l.ex, p) \/ (c = i /\ l.ex.tasks[i] = p)
    BY <2>3 DEF Queued
  <2> HIDE DEF m, e
  <2> QED  BY <1>2, <2>1, <2>3, <2>4 DEF m, Turn
<1> QED  BY <1>1, <1>2

(* What holds of the executor and the word after any number of turns. *)
Turned(ex, l) ==
    /\ ExecutorType(l.ex) /\ QueuesTyped(l.ex)
    /\ l.word \subseteq ex.delay
    /\ Frame(ex, l.ex)
    /\ l.ex.delay = {}
    /\ ex.panic => l.ex.panic
    /\ ex.bitmap \subseteq l.ex.bitmap
    /\ \A p \in Prios :
          /\ Queued(ex, p) \subseteq Queued(l.ex, p)
          /\ \A c \in Queued(l.ex, p) :
                c \in Queued(ex, p) \/ (c \in ex.delay /\ ex.tasks[c] = p)

LEMMA WakeLoopStart ==
    ASSUME NEW ex
    PROVE  /\ WakeLoop(ex)[0].ex = [ex EXCEPT !.delay = {}]
           /\ WakeLoop(ex)[0].word = ex.delay
<1> DEFINE L == WakeLoop(ex)
           x == [ex EXCEPT !.delay = {}]
<1>1. WakeLoop(ex)[0] = [ex |-> [ex EXCEPT !.delay = {}], word |-> ex.delay]
  BY ONLY WakeLoopTurns, Zenon
<1>2. L[0] = [ex |-> x, word |-> ex.delay]  BY <1>1
<1> HIDE DEF L, x
<1>3. L[0].ex = x /\ L[0].word = ex.delay  BY <1>2
<1> QED  BY <1>3 DEF L, x

LEMMA WakeLoopTurned ==
    ASSUME NEW ex, ExecutorType(ex), QueuesTyped(ex)
    PROVE  \A i \in 0 .. WordBits : Turned(ex, WakeLoop(ex)[i])
<1> DEFINE L == WakeLoop(ex)
           S == {i \in 0 .. WordBits : Turned(ex, L[i])}
<1>w. WordBits \in Nat \ {0} /\ ex.delay \subseteq 0 .. WordBits - 1
  BY Constants DEF ExecutorType
<1>1. Turned(ex, L[0])
  <2> DEFINE x == [ex EXCEPT !.delay = {}]
  <2>1. L[0].ex = x /\ L[0].word = ex.delay  BY WakeLoopStart
  <2>2. ExecutorType(x) /\ x.delay = {} /\ x.ready = ex.ready /\ x.bitmap = ex.bitmap
        /\ x.panic = ex.panic /\ Frame(ex, x)
    BY DEF ExecutorType, Frame
  <2> HIDE DEF x
  <2> QED  BY <2>1, <2>2 DEF QueuesTyped, Queued, Turned
<1>2. ASSUME NEW i \in 0 .. WordBits - 1, Turned(ex, L[i])
      PROVE  Turned(ex, L[i + 1])
  <2> DEFINE l == L[i]
             m == L[i + 1]
  <2>1. m = WakeBit(l, i)  BY WakeLoopTurns
  <2>g. Turned(ex, l)  BY <1>2
  <2>2. l.word \subseteq 0 .. WordBits - 1 /\ ExecutorType(l.ex) /\ QueuesTyped(l.ex)
    BY <2>g, <1>w DEF Turned
  <2> HIDE DEF l, m, L
  <2>3. Turn(l, m, i)  BY <2>1, <2>2, WakeBitFacts
  <2>4. Frame(ex, m.ex) /\ l.ex.tasks = ex.tasks  BY <2>3, <2>g DEF Frame, Turned, Turn
  <2>5. Turned(ex, m)  BY <2>3, <2>4, <2>g DEF Turned, Turn
  <2> QED  BY <2>5 DEF m
<1>3. 0 \in S  BY <1>1, <1>w
<1>4. \A i \in 0 .. WordBits - 1 : i \in S => i + 1 \in S
  <2> HIDE DEF L
  <2> QED BY <1>2, <1>w
<1>5. \A i \in 0 .. WordBits : i \in S
  <2> HIDE DEF S
  <2> QED  BY <1>3, <1>4, <1>w, UpTo
<1> QED  BY <1>5

(* actual_wake leaves the tasks alone and empties the word; a queue grows  *)
(* by delayed coroutines of its priority and by nothing else.              *)
LEMMA ActualWakeFacts ==
    ASSUME NEW ex, ExecutorType(ex), QueuesTyped(ex)
    PROVE  LET e == ActualWake(ex)
           IN  /\ ExecutorType(e) /\ QueuesTyped(e)
               /\ Frame(ex, e)
               /\ e.delay = {}
               /\ ex.panic => e.panic
               /\ ex.bitmap \subseteq e.bitmap
               /\ \A p \in Prios :
                     /\ Queued(ex, p) \subseteq Queued(e, p)
                     /\ \A c \in Queued(e, p) :
                           c \in Queued(ex, p) \/ (c \in ex.delay /\ ex.tasks[c] = p)
BY WakeLoopTurned, Constants DEF ActualWake, Turned

(* No bit of the word is another one doubled: the loop clears none it has  *)
(* still to see.                                                           *)
NoClash(word) == \A i, j \in word : j > 0 => i # 2 * j

(* Then every delayed coroutine that is alive is queued, with its bit set. *)
LEMMA ActualWakeAll ==
    ASSUME NEW ex, ExecutorType(ex), QueuesTyped(ex), NoClash(ex.delay)
    PROVE  LET e == ActualWake(ex)
           IN  ~e.panic => \A c \in ex.delay :
                  ex.tasks[c] # NoTask => /\ ex.tasks[c] \in e.bitmap
                                         /\ c \in Queued(e, ex.tasks[c])
<1> DEFINE L == WakeLoop(ex)
           Seen(l, i) ==
              /\ \A c \in ex.delay : c >= i => c \in l.word
              /\ ~l.ex.panic => \A c \in ex.delay :
                    c < i /\ ex.tasks[c] # NoTask =>
                        ex.tasks[c] \in l.ex.bitmap /\ c \in Queued(l.ex, ex.tasks[c])
           S == {i \in 0 .. WordBits : Seen(L[i], i)}
<1>w. WordBits \in Nat \ {0} /\ ex.delay \subseteq 0 .. WordBits - 1
  BY Constants DEF ExecutorType
<1>1. Seen(L[0], 0)
  <2>1. L[0].word = ex.delay  BY WakeLoopStart
  <2> HIDE DEF L
  <2> QED  BY <2>1, <1>w
<1>2. ASSUME NEW i \in 0 .. WordBits - 1, Seen(L[i], i)
      PROVE  Seen(L[i + 1], i + 1)
  <2> DEFINE l == L[i]
             m == L[i + 1]
  <2>1. m = WakeBit(l, i)  BY WakeLoopTurns
  <2>g. Turned(ex, l)
    <3>1. i \in 0 .. WordBits  BY <1>w
    <3> QED  BY <3>1, WakeLoopTurned
  <2>s. Seen(l, i)  BY <1>2
  <2>2. l.word \subseteq 0 .. WordBits - 1 /\ ExecutorType(l.ex) /\ QueuesTyped(l.ex)
    BY <2>g, <1>w DEF Turned
  <2>t. l.word \subseteq ex.delay /\ l.ex.tasks = ex.tasks  BY <2>g DEF Turned, Frame
  <2> HIDE DEF l, m, L
  <2>3. Turn(l, m, i)  BY <2>1, <2>2, WakeBitFacts
  <2>4. ASSUME NEW c \in ex.delay, c >= i + 1  PROVE c \in m.word
    <3>1. c \in l.word  BY <2>s, <2>4, <1>w
    <3>2. ~(i \in l.word /\ c = 2 * i)
      BY <2>4, <2>t, <1>w DEF NoClash
    <3> QED  BY <3>1, <3>2, <2>3 DEF Turn
  <2>5. ASSUME ~m.ex.panic, NEW c \in ex.delay, c < i + 1, ex.tasks[c] # NoTask
        PROVE  ex.tasks[c] \in m.ex.bitmap /\ c \in Queued(m.ex, ex.tasks[c])
    <3>1. CASE c = i
      BY <3>1, <2>5, <2>3, <2>s, <2>t, <1>w DEF Turn
    <3>2. CASE c < i
      <4>1. ex.tasks[c] \in Prios  BY <2>5, <1>w, Constants DEF ExecutorType
      <4> QED  BY <3>2, <4>1, <2>5, <2>3, <2>s DEF Turn
    <3> QED  BY <2>5, <3>1, <3>2, <1>w
  <2>6. Seen(m, i + 1)  BY <2>4, <2>5
  <2> QED  BY <2>6 DEF m
<1>3. 0 \in S  BY <1>1, <1>w
<1>4. \A i \in 0 .. WordBits - 1 : i \in S => i + 1 \in S
  <2> HIDE DEF L, Seen
  <2> QED BY <1>2, <1>w
<1>5. \A i \in 0 .. WordBits : i \in S
  <2> HIDE DEF S
  <2> QED  BY <1>3, <1>4, <1>w, UpTo
<1>6. Seen(L[WordBits], WordBits)  BY <1>5, <1>w
<1> QED  BY <1>6, <1>w DEF ActualWake

(* With one receiver actual_wake is one wake. *)
LEMMA ActualWakeSingle ==
    ASSUME NEW ex, ExecutorType(ex), NEW r \in Nat, ex.delay \subseteq {r}
    PROVE  ActualWake(ex) = IF r \in ex.delay THEN Wake([ex EXCEPT !.delay = {}], r)
                                              ELSE [ex EXCEPT !.delay = {}]
<1> DEFINE L == WakeLoop(ex)
           x == [ex EXCEPT !.delay = {}]
           Seen(i) == /\ L[i].ex = IF r < i /\ r \in ex.delay THEN Wake(x, r) ELSE x
                      /\ i <= r => L[i].word = ex.delay
                      /\ L[i].word \subseteq ex.delay
           S == {i \in 0 .. WordBits : Seen(i)}
<1>w. WordBits \in Nat \ {0} /\ ex.delay \subseteq 0 .. WordBits - 1
  BY Constants DEF ExecutorType
<1>1. L[0].ex = x /\ L[0].word = ex.delay  BY WakeLoopStart
<1>2. \A i \in 0 .. WordBits - 1 : L[i + 1] = WakeBit(L[i], i)  BY WakeLoopTurns
<1> HIDE DEF L, x
<1>3. Seen(0)  BY <1>1
<1>4. ASSUME NEW i \in 0 .. WordBits - 1, Seen(i)  PROVE Seen(i + 1)
  <2>1. L[i + 1] = WakeBit(L[i], i)  BY <1>2
  <2>2. CASE i \notin L[i].word
    <3>1. L[i + 1] = L[i]  BY <2>1, <2>2 DEF WakeBit
    <3>2. i = r => r \notin ex.delay  BY <1>4, <2>2
    <3> QED  BY <1>4, <3>1, <3>2
  <2>3. CASE i \in L[i].word
    <3>1. i = r /\ r \in ex.delay  BY <1>4, <2>3
    <3>2. L[i + 1] = [ex |-> Wake(L[i].ex, i), word |-> L[i].word \ {2 * i}]
      BY <2>1, <2>3 DEF WakeBit
    <3>3. L[i].ex = x  BY <1>4, <3>1
    <3>4. L[i + 1].ex = Wake(x, r) /\ L[i + 1].word \subseteq L[i].word  BY <3>1, <3>2, <3>3
    <3> QED  BY <1>4, <3>1, <3>4
  <2> QED  BY <2>2, <2>3
<1>5. \A i \in 0 .. WordBits : i \in S
  <2>1. 0 \in S  BY <1>3, <1>w
  <2>2. \A i \in 0 .. WordBits - 1 : i \in S => i + 1 \in S
    <3> HIDE DEF Seen
    <3> QED  BY <1>4, <1>w
  <2> HIDE DEF S
  <2> QED  BY <2>1, <2>2, <1>w, UpTo
<1>6. Seen(WordBits)  BY <1>5, <1>w
<1>7. L[WordBits].ex = IF r \in ex.delay THEN Wake(x, r) ELSE x
  BY <1>6, <1>w
<1> QED  BY <1>7 DEF ActualWake, L, x

(* With one receiver, whose id is 0, actual_wake is one wake. *)
LEMMA ActualWakeOne ==
    ASSUME NEW ex, ExecutorType(ex), ex.delay \subseteq {0}
    PROVE  ActualWake(ex) = IF 0 \in ex.delay THEN Wake([ex EXCEPT !.delay = {}], 0)
                                              ELSE [ex EXCEPT !.delay = {}]
BY ActualWakeSingle

-----------------------------------------------------------------------------
(* Exact ready structures. *)

(* Queued ids are alive, in the queue of their priority. *)
LEMMA QueuedAlive ==
    ASSUME NEW ex, ExecutorType(ex), QueuesTyped(ex), Exact(ex), NEW p \in Prios,
           NEW c \in Queued(ex, p)
    PROVE  c \in Live(ex) /\ ex.tasks[c] = p /\ p \in ex.bitmap
<1>1. PICK k \in DOMAIN ex.ready[p] : c = ex.ready[p][k]  BY DEF Queued
<1>2. ex.ready[p] \in Seq(TaskIds)  BY DEF QueuesTyped
<1>3. c \in TaskIds /\ ex.ready[p] # <<>>  BY <1>1, <1>2
<1>4. ex.tasks[c] = p /\ p \in ex.bitmap  BY <1>1, <1>3 DEF Exact
<1> QED  BY <1>3, <1>4, Constants DEF Live

(* A queue is no longer than any set that holds its ids. *)
LEMMA QueueLength ==
    ASSUME NEW ex, ExecutorType(ex), QueuesTyped(ex), Exact(ex), NEW p \in Prios,
           NEW T, IsFiniteSet(T), Queued(ex, p) \subseteq T
    PROVE  Len(ex.ready[p]) <= Cardinality(T)
<1> DEFINE s == ex.ready[p]
<1>1. s \in Seq(TaskIds)  BY DEF QueuesTyped
<1>2. Len(s) \in Nat /\ s \in [1 .. Len(s) -> TaskIds] /\ DOMAIN s = 1 .. Len(s)
  BY <1>1, LenProperties
<1>3. \A k \in 1 .. Len(s) : s[k] \in T  BY <1>2 DEF Queued
<1>4. \A k, j \in 1 .. Len(s) : s[j] = s[k] => j = k  BY <1>2 DEF Exact
<1> HIDE DEF s
<1>5. s \in Injection(1 .. Len(s), T)
  BY <1>2, <1>3, <1>4 DEF Injection, IsInjective
<1>6. Cardinality(1 .. Len(s)) <= Cardinality(T)  BY <1>5, FS_Injection
<1>7. Cardinality(1 .. Len(s)) = Len(s)  BY <1>2, FS_Interval
<1> QED  BY <1>6, <1>7 DEF s

(* Appending an id that is in no queue keeps the structure exact. *)
LEMMA ExactAppend ==
    ASSUME NEW ex, ExecutorType(ex), QueuesTyped(ex), Exact(ex), NEW p \in Prios,
           NEW c \in TaskIds, \A q \in Prios : c \notin Queued(ex, q),
           NEW e, e.ready = [ex.ready EXCEPT ![p] = Append(@, c)],
           e.bitmap = ex.bitmap \cup {p},
           e.tasks[c] = p, \A d \in TaskIds \ {c} : e.tasks[d] = ex.tasks[d]
    PROVE  Exact(e)
<1> SUFFICES ASSUME NEW q \in Prios
             PROVE  /\ q \in e.bitmap <=> e.ready[q] # <<>>
                    /\ \A k \in DOMAIN e.ready[q] :
                          /\ e.tasks[e.ready[q][k]] = q
                          /\ \A j \in DOMAIN e.ready[q] :
                                e.ready[q][j] = e.ready[q][k] => j = k
  BY DEF Exact
<1> DEFINE s == ex.ready[q]
<1>1. s \in Seq(TaskIds) /\ ex.ready \in [Prios -> Seq(TaskIds)]  BY DEF QueuesTyped
<1>2. Len(s) \in Nat /\ DOMAIN s = 1 .. Len(s) /\ \A k \in 1 .. Len(s) : s[k] \in TaskIds \ {c}
  BY <1>1, LenProperties DEF Queued
<1>3. /\ q \in ex.bitmap <=> s # <<>>
      /\ \A k \in 1 .. Len(s) : ex.tasks[s[k]] = q
      /\ \A j, k \in 1 .. Len(s) : s[j] = s[k] => j = k
  BY <1>2 DEF Exact
<1>4. CASE q # p
  <2>1. e.ready[q] = s  BY <1>4, <1>1
  <2> HIDE DEF s
  <2> QED  BY <2>1, <1>2, <1>3, <1>4
<1>5. CASE q = p
  <2> DEFINE t == Append(s, c)
  <2>1. e.ready[q] = t  BY <1>5, <1>1
  <2>2. /\ Len(t) = Len(s) + 1
        /\ \A k \in 1 .. Len(s) : t[k] = s[k]
        /\ t[Len(s) + 1] = c
        /\ DOMAIN t = 1 .. Len(s) + 1
        /\ t # <<>>
    BY <1>1, AppendFacts
  <2> HIDE DEF s, t
  <2>3. \A k \in 1 .. Len(s) + 1 : e.tasks[t[k]] = q
    BY <2>2, <1>2, <1>3, <1>5
  <2>4. \A j, k \in 1 .. Len(s) + 1 : t[j] = t[k] => j = k
    BY <2>2, <1>2, <1>3
  <2> QED  BY <2>1, <2>2, <2>3, <2>4, <1>5
<1> QED  BY <1>4, <1>5

LEMMA LiveFinite ==
    ASSUME NEW ex
    PROVE  IsFiniteSet(Live(ex)) /\ Cardinality(Live(ex)) \in Nat
<1>1. IsFiniteSet(TaskIds)  BY Constants, FS_Interval DEF TaskIds
<1>2. Live(ex) \in SUBSET TaskIds  BY DEF Live
<1>3. IsFiniteSet(Live(ex))  BY <1>1, <1>2, FS_Subset
<1> QED  BY <1>3, FS_CardinalityType

(* There are fewer coroutines than a ready ring has room for. *)
Fits(ex) == Cardinality(Live(ex)) <= MaxTask - 1

(* Waking a coroutine that is alive and not queued cannot fail. *)
LEMMA WakeExact ==
    ASSUME NEW ex, ExecutorType(ex), QueuesTyped(ex), Exact(ex), Fits(ex), ~ex.panic,
           NEW c \in Live(ex), \A q \in Prios : c \notin Queued(ex, q)
    PROVE  LET e == Wake(ex, c)
           IN  /\ Exact(e) /\ ~e.panic
               /\ ExecutorType(e) /\ QueuesTyped(e)
               /\ Frame(ex, e)
               /\ e.delay = ex.delay
               /\ \A q \in Prios :
                     Queued(e, q) = Queued(ex, q) \cup (IF q = ex.tasks[c] THEN {c} ELSE {})
<1> DEFINE p == ex.tasks[c]
           e == Wake(ex, c)
<1>1. c \in TaskIds /\ p \in Prios /\ p # NoTask  BY DEF Live, ExecutorType
<1>2. e = PushReady(ex, p, c)  BY <1>1 DEF Wake
<1>3. Len(ex.ready[p]) < MaxTask - 1
  <2>1. Queued(ex, p) \subseteq Live(ex) \ {c}  BY <1>1, QueuedAlive
  <2>2. IsFiniteSet(Live(ex) \ {c}) /\ Cardinality(Live(ex) \ {c}) = Cardinality(Live(ex)) - 1
    BY LiveFinite, FS_RemoveElement
  <2>3. Len(ex.ready[p]) <= Cardinality(Live(ex) \ {c})
    BY <1>1, <2>1, <2>2, QueueLength
  <2>4. Len(ex.ready[p]) \in Nat  BY <1>1 DEF QueuesTyped
  <2> HIDE DEF p
  <2> QED  BY <2>2, <2>3, <2>4, LiveFinite, Constants DEF Fits
<1> HIDE DEF e, p
<1>c. c \in Cids  BY <1>1, Constants
<1>4. /\ ExecutorType(e) /\ Frame(ex, e) /\ e.delay = ex.delay
      /\ e.bitmap = ex.bitmap \cup {p}
      /\ e.ready = [ex.ready EXCEPT ![p] = Append(@, c)]
      /\ e.panic = ex.panic
  BY <1>1, <1>2, <1>3, <1>c, PushReadyFacts
<1>5. /\ QueuesTyped(e)
      /\ \A q \in Prios \ {p} : e.ready[q] = ex.ready[q]
      /\ Queued(ex, p) \subseteq Queued(e, p)
      /\ Queued(e, p) \subseteq Queued(ex, p) \cup {c}
      /\ c \in Queued(e, p)
  BY <1>1, <1>2, <1>4, PushReadyQueued
<1>6. e.tasks = ex.tasks  BY <1>4 DEF Frame
<1>7. Exact(e)
  BY <1>1, <1>4, <1>6, ExactAppend DEF p
<1>8. \A q \in Prios : Queued(e, q) = Queued(ex, q) \cup (IF q = p THEN {c} ELSE {})
  <2>1. \A q \in Prios \ {p} : Queued(e, q) = Queued(ex, q)  BY <1>5 DEF Queued
  <2>2. Queued(e, p) = Queued(ex, p) \cup {c}  BY <1>5
  <2> QED  BY <2>1, <2>2
<1> QED  BY <1>4, <1>5, <1>7, <1>8 DEF e, p

(* actual_wake keeps the structure exact and cannot fail when the delayed  *)
(* coroutines are alive and none is queued as well.                        *)
LEMMA ActualWakeExact ==
    ASSUME NEW ex, ExecutorType(ex), QueuesTyped(ex), Exact(ex), Fits(ex), ~ex.panic,
           ex.delay \subseteq Live(ex), \A q \in Prios : ex.delay \cap Queued(ex, q) = {}
    PROVE  LET e == ActualWake(ex)  IN  Exact(e) /\ ~e.panic
<1> DEFINE L == WakeLoop(ex)
           Kept(l, i) == /\ Exact(l.ex) /\ ~l.ex.panic
                         /\ \A c \in ex.delay, q \in Prios : c >= i => c \notin Queued(l.ex, q)
           S == {i \in 0 .. WordBits : Kept(L[i], i)}
<1>w. WordBits \in Nat \ {0} /\ ex.delay \subseteq 0 .. WordBits - 1
  BY Constants DEF ExecutorType
<1>1. Kept(L[0], 0)
  <2> DEFINE x == [ex EXCEPT !.delay = {}]
  <2>1. L[0].ex = x  BY WakeLoopStart
  <2>2. x.ready = ex.ready /\ x.bitmap = ex.bitmap /\ x.panic = ex.panic /\ x.tasks = ex.tasks
    BY DEF ExecutorType
  <2>3. Exact(x) /\ \A q \in Prios : Queued(x, q) = Queued(ex, q)
    BY <2>2 DEF Exact, Queued
  <2> HIDE DEF x, L
  <2> QED  BY <2>1, <2>2, <2>3
<1>2. ASSUME NEW i \in 0 .. WordBits - 1, Kept(L[i], i)
      PROVE  Kept(L[i + 1], i + 1)
  <2> DEFINE l == L[i]
             m == L[i + 1]
             e == Wake(l.ex, i)
  <2>1. m = WakeBit(l, i)  BY WakeLoopTurns
  <2>g. Turned(ex, l)
    <3>1. i \in 0 .. WordBits  BY <1>w
    <3> QED  BY <3>1, WakeLoopTurned
  <2>s. Kept(l, i)  BY <1>2
  <2> HIDE DEF l, m, L
  <2>2. CASE i \notin l.word
    <3>1. m = l  BY <2>1, <2>2 DEF WakeBit
    <3>2. Kept(l, i + 1)  BY <2>s, <1>w
    <3> QED  BY <3>1, <3>2 DEF m
  <2>3. CASE i \in l.word
    <3>1. m.ex = e  BY <2>1, <2>3 DEF WakeBit
    <3>2. i \in ex.delay /\ ExecutorType(l.ex) /\ QueuesTyped(l.ex) /\ l.ex.tasks = ex.tasks
      BY <2>3, <2>g DEF Turned, Frame
    <3>3. Live(l.ex) = Live(ex)  BY <3>2 DEF Live
    <3>4. i \in Live(l.ex) /\ Fits(l.ex)  BY <3>2, <3>3 DEF Fits
    <3>5. \A q \in Prios : i \notin Queued(l.ex, q)  BY <2>s, <3>2
    <3>6. /\ Exact(e) /\ ~e.panic
          /\ \A q \in Prios : Queued(e, q) =
                  Queued(l.ex, q) \cup (IF q = l.ex.tasks[i] THEN {i} ELSE {})
      BY <3>2, <3>4, <3>5, <2>s, WakeExact
    <3>7. ASSUME NEW c \in ex.delay, NEW q \in Prios, c >= i + 1
          PROVE  c \notin Queued(e, q)
      <4>1. c # i /\ c >= i  BY <3>7, <1>w
      <4> QED  BY <4>1, <3>6, <2>s
    <3> HIDE DEF e
    <3>8. Kept(m, i + 1)  BY <3>1, <3>6, <3>7
    <3> QED  BY <3>8 DEF m
  <2> QED  BY <2>2, <2>3
<1>3. 0 \in S  BY <1>1, <1>w
<1>4. \A i \in 0 .. WordBits - 1 : i \in S => i + 1 \in S
  <2> HIDE DEF L, Kept
  <2> QED BY <1>2, <1>w
<1>5. \A i \in 0 .. WordBits : i \in S
  <2> HIDE DEF S
  <2> QED  BY <1>3, <1>4, <1>w, UpTo
<1>6. Kept(L[WordBits], WordBits)  BY <1>5, <1>w
<1> QED  BY <1>6 DEF ActualWake

-----------------------------------------------------------------------------
(* spawn, fetch and remove_task. *)

(* spawn from ex to e made the coroutine c. *)
Spawned(ex, e, prio, c) ==
    /\ c \in TaskIds \ ex.ids
    /\ \A d \in TaskIds \ ex.ids : c <= d
    /\ ~ex.panic
    /\ ExecutorType(e)
    /\ e.tasks = [ex.tasks EXCEPT ![c] = prio]
    /\ e.num = ex.num + 1
    /\ e.current = ex.current
    /\ e.delay = ex.delay
    /\ e.ids = ex.ids \cup {c}
    /\ e.bitmap = ex.bitmap \cup {prio}
    /\ e.ready = [ex.ready EXCEPT ![prio] = Append(@, c)]

LEMMA SpawnFacts ==
    ASSUME NEW ex, ExecutorType(ex), NEW prio \in Prios
    PROVE  LET e == Spawn(ex, prio)
           IN  /\ ExecutorType(e)
               /\ ~e.panic => \E c \in TaskIds : Spawned(ex, e, prio, c)
<1> DEFINE e == Spawn(ex, prio)
<1>1. CASE FreeCids(ex) = {}
  BY <1>1 DEF Spawn, ExecutorType
<1>2. CASE FreeCids(ex) # {}
  <2> DEFINE c == find_first_one(FreeCids(ex))
             x == [ex EXCEPT !.ids = @ \cup {c}]
             y == PushReady(x, prio, c)
  <2>1. FreeCids(ex) \in SUBSET Nat  BY Constants DEF FreeCids
  <2>2. c \in FreeCids(ex)  BY <1>2, <2>1, FirstOne
  <2>3. c \in Cids /\ c \notin ex.ids  BY <2>2 DEF FreeCids
  <2>l. \A d \in TaskIds \ ex.ids : c <= d
    <3>1. \A d \in FreeCids(ex) : c <= d  BY <1>2, <2>1, FirstOne
    <3> HIDE DEF c
    <3> QED  BY <3>1, Constants DEF FreeCids
  <2>4. e = IF y.panic \/ c \notin TaskIds THEN [y EXCEPT !.panic = TRUE]
            ELSE [y EXCEPT !.tasks[c] = prio, !.num = @ + 1]
    BY <1>2 DEF Spawn
  <2> HIDE DEF c
  <2>5. /\ ExecutorType(x) /\ x.ids = ex.ids \cup {c} /\ x.ready = ex.ready
        /\ x.bitmap = ex.bitmap /\ x.tasks = ex.tasks /\ x.num = ex.num
        /\ x.current = ex.current /\ x.delay = ex.delay /\ x.panic = ex.panic
    BY <2>3 DEF ExecutorType
  <2> HIDE DEF x
  <2>6. /\ ExecutorType(y) /\ Frame(x, y) /\ y.delay = x.delay
        /\ y.bitmap = x.bitmap \cup {prio}
        /\ \/ /\ Len(x.ready[prio]) < MaxTask - 1
              /\ y.ready = [x.ready EXCEPT ![prio] = Append(@, c)]
              /\ y.panic = x.panic
           \/ /\ ~(Len(x.ready[prio]) < MaxTask - 1)
              /\ y.ready = x.ready
              /\ y.panic
    BY <2>3, <2>5, PushReadyFacts
  <2> HIDE DEF y, e
  <2>7. CASE y.panic \/ c \notin TaskIds
    <3>1. e = [y EXCEPT !.panic = TRUE]  BY <2>4, <2>7
    <3>2. ExecutorType(e) /\ e.panic  BY <3>1, <2>6 DEF ExecutorType
    <3> QED  BY <3>2 DEF e
  <2>8. CASE ~y.panic /\ c \in TaskIds
    <3>1. e = [y EXCEPT !.tasks[c] = prio, !.num = @ + 1]  BY <2>4, <2>8
    <3>t. /\ [y.tasks EXCEPT ![c] = prio] \in [TaskIds -> Prios \cup {NoTask}]
          /\ y.num + 1 \in Nat
      BY <2>6, <2>8 DEF ExecutorType
    <3>2. ExecutorType(e)
      <4> DEFINE nt == [y.tasks EXCEPT ![c] = prio]
                 nn == y.num + 1
      <4>1. e = [y EXCEPT !.tasks = nt, !.num = nn]  BY <3>1, <2>6 DEF ExecutorType
      <4>2. nt \in [TaskIds -> Prios \cup {NoTask}] /\ nn \in Nat  BY <3>t
      <4> HIDE DEF nt, nn
      <4> QED  BY <4>1, <4>2, <2>6 DEF ExecutorType
    <3>3. /\ e.tasks = [y.tasks EXCEPT ![c] = prio] /\ e.num = y.num + 1
          /\ e.current = y.current /\ e.delay = y.delay /\ e.ids = y.ids
          /\ e.bitmap = y.bitmap /\ e.ready = y.ready
      BY <3>1, <2>6, <2>8 DEF ExecutorType
    <3>4. Spawned(ex, e, prio, c)
      BY <3>2, <3>3, <2>l, <2>3, <2>5, <2>6, <2>8 DEF Spawned, Frame
    <3> QED  BY <3>2, <3>4, <2>8 DEF e
  <2> QED  BY <2>7, <2>8
<1> QED  BY <1>1, <1>2

(* coroutine_num, the task array and the id allocator agree. *)
IdsMatch(ex) == ex.num = Cardinality(Live(ex)) /\ ex.ids = Live(ex)

LEMMA SpawnedMatch ==
    ASSUME NEW ex, ExecutorType(ex), QueuesTyped(ex), IdsMatch(ex), NEW prio \in Prios,
           NEW e, NEW c \in TaskIds, Spawned(ex, e, prio, c)
    PROVE  /\ QueuesTyped(e) /\ IdsMatch(e)
           /\ c \notin Live(ex)
           /\ Live(e) = Live(ex) \cup {c}
           /\ Cardinality(Live(e)) = Cardinality(Live(ex)) + 1
           /\ c \in Queued(e, prio) /\ prio \in e.bitmap
           /\ \A p \in Prios : Queued(ex, p) \subseteq Queued(e, p)
           /\ \A p \in Prios : \A d \in Queued(e, p) : d \in Queued(ex, p) \/ (d = c /\ p = prio)
<1>1. c \notin Live(ex)  BY DEF Spawned, IdsMatch
<1>2. Live(e) = Live(ex) \cup {c}
  BY Constants DEF Spawned, Live, ExecutorType
<1>3. Cardinality(Live(e)) = Cardinality(Live(ex)) + 1
  BY <1>1, <1>2, LiveFinite, FS_AddElement
<1>4. IdsMatch(e)  BY <1>2, <1>3 DEF IdsMatch, Spawned
<1> DEFINE s == ex.ready[prio]
           t == Append(s, c)
<1>5. s \in Seq(TaskIds) /\ ex.ready \in [Prios -> Seq(TaskIds)]  BY DEF QueuesTyped
<1>6. /\ t \in Seq(TaskIds)
      /\ Len(s) \in Nat /\ DOMAIN s = 1 .. Len(s) /\ DOMAIN t = 1 .. Len(s) + 1
      /\ \A k \in 1 .. Len(s) : t[k] = s[k]
      /\ t[Len(s) + 1] = c
  BY <1>5, AppendFacts
<1>7. e.ready[prio] = t /\ \A p \in Prios \ {prio} : e.ready[p] = ex.ready[p]
  BY <1>5 DEF Spawned
<1>8. QueuesTyped(e)  BY <1>5, <1>6 DEF QueuesTyped, Spawned
<1> HIDE DEF s, t
<1>9. /\ {s[k] : k \in DOMAIN s} \subseteq {t[k] : k \in DOMAIN t}
      /\ {t[k] : k \in DOMAIN t} \subseteq {s[k] : k \in DOMAIN s} \cup {c}
  BY <1>6
<1>10. c \in {t[k] : k \in DOMAIN t}
  <2>1. Len(s) + 1 \in DOMAIN t  BY <1>6
  <2> QED  BY <2>1, <1>6
<1>11. prio \in e.bitmap  BY DEF Spawned
<1> QED  BY <1>1, <1>2, <1>3, <1>4, <1>7, <1>8, <1>9, <1>10, <1>11 DEF s, Queued

(* An executor as thread_local creates it. *)
LEMMA NewFacts ==
    /\ ExecutorType(New) /\ QueuesTyped(New) /\ IdsMatch(New) /\ Exact(New) /\ Fits(New)
    /\ Live(New) = {} /\ New.delay = {} /\ ~New.panic /\ New.bitmap = {}
    /\ \A p \in Prios : Queued(New, p) = {}
<1> DEFINE r == [p \in Prios |-> <<>>]
           t == [c \in TaskIds |-> NoTask]
<1>1. /\ r \in [Prios -> Seq(Cids)] /\ r \in [Prios -> Seq(TaskIds)]
      /\ t \in [TaskIds -> Prios \cup {NoTask}]
      /\ \A p \in Prios : r[p] = <<>>
      /\ \A c \in TaskIds : t[c] = NoTask
  OBVIOUS
<1>2. New = [ready |-> r, bitmap |-> {}, tasks |-> t, num |-> 0, current |-> NoCid,
             delay |-> {}, ids |-> {}, panic |-> FALSE]
  BY DEF New
<1> HIDE DEF r, t
<1>3. /\ ExecutorType(New) /\ New.ready = r /\ New.tasks = t /\ New.num = 0
      /\ New.ids = {} /\ New.bitmap = {} /\ New.delay = {} /\ ~New.panic
  BY <1>1, <1>2 DEF ExecutorType
<1>4. Live(New) = {}  BY <1>1, <1>3 DEF Live
<1>5. Cardinality({}) = 0  BY FS_EmptySet
<1>6. IdsMatch(New) /\ Fits(New)  BY <1>3, <1>4, <1>5, Constants DEF IdsMatch, Fits
<1>7. DOMAIN <<>> = {}  OBVIOUS
<1>8. Exact(New) /\ \A p \in Prios : Queued(New, p) = {}
  BY <1>1, <1>3, <1>7 DEF Exact, Queued
<1> QED  BY <1>1, <1>3, <1>4, <1>6, <1>8 DEF QueuesTyped

(* spawn cannot fail while there is a free task and its ready ring has     *)
(* room.                                                                   *)
LEMMA SpawnExact ==
    ASSUME NEW ex, ExecutorType(ex), QueuesTyped(ex), IdsMatch(ex), Exact(ex), ~ex.panic,
           NEW prio \in Prios, Len(ex.ready[prio]) < MaxTask - 1, Live(ex) # TaskIds
    PROVE  LET e == Spawn(ex, prio)  IN  Exact(e) /\ ~e.panic
<1> DEFINE e == Spawn(ex, prio)
           c == find_first_one(FreeCids(ex))
           x == [ex EXCEPT !.ids = @ \cup {c}]
           y == PushReady(x, prio, c)
<1>1. PICK d \in TaskIds : d \notin Live(ex)  BY DEF Live
<1>2. d \in FreeCids(ex)  BY <1>1, Constants DEF FreeCids, IdsMatch
<1>3. FreeCids(ex) \in SUBSET Nat /\ FreeCids(ex) # {}  BY <1>2, Constants DEF FreeCids
<1>4. c \in FreeCids(ex) /\ c <= d  BY <1>2, <1>3, FirstOne
<1>5. c \in TaskIds /\ c \in Cids /\ c \notin ex.ids
  BY <1>4, <1>3, Constants DEF TaskIds, FreeCids
<1>6. e = IF y.panic \/ c \notin TaskIds THEN [y EXCEPT !.panic = TRUE]
          ELSE [y EXCEPT !.tasks[c] = prio, !.num = @ + 1]
  BY <1>3 DEF Spawn
<1> HIDE DEF c
<1>7. ExecutorType(x) /\ x.ready = ex.ready /\ x.panic = ex.panic
  BY <1>5 DEF ExecutorType
<1> HIDE DEF x
<1>9. ExecutorType(y) /\ ~y.panic  BY <1>5, <1>7, PushReadyFacts
<1> HIDE DEF y, e
<1>10. ~e.panic  BY <1>5, <1>6, <1>9 DEF ExecutorType
<1>11. PICK b \in TaskIds : Spawned(ex, e, prio, b)  BY <1>10, SpawnFacts DEF e
<1>12. \A q \in Prios : b \notin Queued(ex, q)
  BY <1>11, QueuedAlive DEF Spawned, IdsMatch
<1>13. e.tasks[b] = prio /\ \A a \in TaskIds \ {b} : e.tasks[a] = ex.tasks[a]
  BY <1>11 DEF Spawned, ExecutorType
<1>14. /\ e.ready = [ex.ready EXCEPT ![prio] = Append(@, b)]
       /\ e.bitmap = ex.bitmap \cup {prio}
  BY <1>11 DEF Spawned
<1>15. Exact(e)
  BY <1>12, <1>13, <1>14, ExactAppend
<1> QED  BY <1>10, <1>15 DEF e

(* That is so while a ready ring has room for all coroutines. *)
LEMMA SpawnFits ==
    ASSUME NEW ex, ExecutorType(ex), QueuesTyped(ex), IdsMatch(ex), Exact(ex), ~ex.panic,
           NEW prio \in Prios, Cardinality(Live(ex)) < MaxTask - 1
    PROVE  LET e == Spawn(ex, prio)  IN  Exact(e) /\ ~e.panic
<1>1. Len(ex.ready[prio]) < MaxTask - 1
  <2>1. Queued(ex, prio) \subseteq Live(ex)  BY QueuedAlive
  <2>2. Len(ex.ready[prio]) <= Cardinality(Live(ex))  BY <2>1, LiveFinite, QueueLength
  <2>3. Len(ex.ready[prio]) \in Nat  BY DEF QueuesTyped
  <2> QED  BY <2>2, <2>3, LiveFinite, Constants
<1>2. Cardinality(TaskIds) = MaxTask  BY Constants, FS_Interval DEF TaskIds
<1>3. Live(ex) # TaskIds  BY <1>2, LiveFinite, Constants
<1> QED  BY <1>1, <1>3, SpawnExact

(* A loop that spawns: g has the executors after each turn. *)
SpawnTurns(g, ex, n, prio) ==
    /\ g[0] = ex
    /\ \A i \in 0 .. n - 1 : g[i + 1] = Spawn(g[i], prio)
    /\ SpawnMany(ex, n, prio) = g[n]

LEMMA SpawnManyTurns ==
    ASSUME NEW ex, NEW n \in Nat, NEW prio
    PROVE  \E g : SpawnTurns(g, ex, n, prio)
<1> DEFINE Turns(g, m) == g = [i \in 0 .. m |-> IF i = 0 THEN ex ELSE Spawn(g[i - 1], prio)]
           S == {m \in Nat : \E g : Turns(g, m)}
<1>1. 0 \in S
  <2>1. Turns([i \in 0 .. 0 |-> ex], 0)  OBVIOUS
  <2> QED  BY <2>1
<1>2. ASSUME NEW m \in 0 .. n - 1, m \in S  PROVE m + 1 \in S
  <2>1. PICK g : Turns(g, m)  BY <1>2
  <2> DEFINE h == [i \in 0 .. m + 1 |-> IF i <= m THEN g[i] ELSE Spawn(g[m], prio)]
  <2>2. Turns(h, m + 1)
    <3>1. ASSUME NEW i \in 0 .. m + 1
          PROVE  h[i] = IF i = 0 THEN ex ELSE Spawn(h[i - 1], prio)
      <4>1. CASE i = 0  BY <2>1, <4>1
      <4>2. CASE i \in 1 .. m  BY <2>1, <4>2
      <4>3. CASE i = m + 1  BY <2>1, <4>3
      <4> QED  BY <4>1, <4>2, <4>3
    <3> QED  BY <3>1
  <2>3. m + 1 \in Nat  OBVIOUS
  <2> HIDE DEF h, Turns
  <2> QED  BY <2>2, <2>3
<1>3. n \in S
  <2> HIDE DEF S
  <2> QED  BY <1>1, <1>2, UpTo
<1> DEFINE t == CHOOSE g : Turns(g, n)
<1>4. Turns(t, n)  BY <1>3
<1>5. SpawnMany(ex, n, prio) = t[n]  BY DEF SpawnMany
<1> HIDE DEF t
<1>6. t[0] = ex  BY <1>4
<1>7. ASSUME NEW i \in 0 .. n - 1  PROVE t[i + 1] = Spawn(t[i], prio)
  BY <1>4
<1>8. SpawnTurns(t, ex, n, prio)  BY <1>5, <1>6, <1>7 DEF SpawnTurns
<1> QED  BY <1>8

(* The pop of fetch took f.got, or nothing, from the queue of priority p.  *)
Popped(e, f, p) ==
    /\ ExecutorType(f.ex) /\ QueuesTyped(f.ex)
    /\ f.ex.tasks = e.tasks
    /\ f.ex.num = e.num
    /\ f.ex.ids = e.ids
    /\ f.ex.delay = e.delay
    /\ f.ex.panic = e.panic
    /\ \A q \in Prios \ {p} : f.ex.ready[q] = e.ready[q]
    /\ \/ f.got = NoCid /\ e.ready[p] = <<>> /\ f.ex = e
       \/ /\ f.got = NoCid
          /\ e.ready[p] # <<>>
          /\ e.tasks[Head(e.ready[p])] = NoTask
          /\ f.ex.ready[p] = Tail(e.ready[p])
          /\ f.ex.bitmap = e.bitmap
          /\ f.ex.current = e.current
       \/ /\ f.got \in Live(e)
          /\ e.ready[p] # <<>>
          /\ f.got = Head(e.ready[p])
          /\ f.ex.ready[p] = Tail(e.ready[p])
          /\ f.ex.bitmap = IF Tail(e.ready[p]) = <<>> THEN e.bitmap \ {p} ELSE e.bitmap
          /\ f.ex.current = f.got

LEMMA PopReadyFacts ==
    ASSUME NEW e, ExecutorType(e), QueuesTyped(e), NEW p \in Prios
    PROVE  Popped(e, PopReady(e, p), p)
<1> DEFINE f == PopReady(e, p)
           c == Head(e.ready[p])
           q == Tail(e.ready[p])
<1>1. CASE e.ready[p] = <<>>
  <2>1. f = [ex |-> e, got |-> NoCid]  BY <1>1 DEF PopReady
  <2>2. f.ex = e /\ f.got = NoCid  BY <2>1
  <2> HIDE DEF f
  <2> QED  BY <1>1, <2>2 DEF Popped, f
<1>2. CASE e.ready[p] # <<>>
  <2>1. e.ready[p] \in Seq(TaskIds) /\ e.ready \in [Prios -> Seq(TaskIds)]
    BY DEF QueuesTyped
  <2>2. c \in TaskIds /\ q \in Seq(TaskIds)  BY <1>2, <2>1, TailFacts
  <2>3. q \in Seq(Cids)
    <3>1. e.ready[p] \in Seq(Cids)  BY DEF ExecutorType
    <3> QED  BY <1>2, <3>1, TailFacts
  <2> DEFINE r == [e.ready EXCEPT ![p] = q]
             b == IF q = <<>> THEN e.bitmap \ {p} ELSE e.bitmap
  <2>4. /\ r \in [Prios -> Seq(Cids)] /\ r \in [Prios -> Seq(TaskIds)]
        /\ r[p] = q /\ \A d \in Prios \ {p} : r[d] = e.ready[d]
        /\ b \in SUBSET Prios
    BY <2>1, <2>2, <2>3 DEF ExecutorType
  <2>5. CASE e.tasks[c] = NoTask
    <3> DEFINE g == [e EXCEPT !.ready = r]
    <3>1. f = [ex |-> g, got |-> NoCid]  BY <1>2, <2>5 DEF PopReady
    <3>2. f.ex = g /\ f.got = NoCid  BY <3>1
    <3> HIDE DEF r, b
    <3>3. /\ ExecutorType(g) /\ g.ready = r /\ g.bitmap = e.bitmap /\ g.tasks = e.tasks
          /\ g.num = e.num /\ g.current = e.current /\ g.delay = e.delay /\ g.ids = e.ids
          /\ g.panic = e.panic
      BY <2>4 DEF ExecutorType
    <3> HIDE DEF f, g
    <3> QED  BY <1>2, <2>4, <2>5, <3>2, <3>3 DEF Popped, QueuesTyped, f
  <2>6. CASE e.tasks[c] # NoTask
    <3> DEFINE g == [e EXCEPT !.ready = r, !.current = c, !.bitmap = b]
    <3>1. f = [ex |-> g, got |-> c]  BY <1>2, <2>6 DEF PopReady
    <3>2. f.ex = g /\ f.got = c  BY <3>1
    <3>3. c \in Live(e)  BY <2>2, <2>6 DEF Live
    <3> HIDE DEF r, b, c
    <3>4. /\ ExecutorType(g) /\ g.ready = r /\ g.bitmap = b /\ g.tasks = e.tasks
          /\ g.num = e.num /\ g.current = c /\ g.delay = e.delay /\ g.ids = e.ids
          /\ g.panic = e.panic
      BY <2>2, <2>4 DEF ExecutorType
    <3> HIDE DEF f, g
    <3> QED  BY <1>2, <2>4, <3>2, <3>3, <3>4 DEF Popped, QueuesTyped, f, b, c
  <2> QED  BY <2>5, <2>6
<1> QED  BY <1>1, <1>2

(* Only the head of the queue leaves it, and a bit is cleared only with    *)
(* its queue.                                                              *)
LEMMA PoppedQueued ==
    ASSUME NEW e, ExecutorType(e), QueuesTyped(e), NEW p \in Prios, NEW f, Popped(e, f, p),
           NEW q \in Prios
    PROVE  /\ Queued(f.ex, q) \subseteq Queued(e, q)
           /\ \A c \in Queued(e, q) :
                 c = f.got \/ e.tasks[c] = NoTask \/ c \in Queued(f.ex, q)
           /\ q \in e.bitmap /\ Queued(f.ex, q) # {} => q \in f.ex.bitmap
<1>1. CASE q # p \/ f.ex = e
  <2>1. f.ex.ready[q] = e.ready[q]  BY <1>1 DEF Popped
  <2>2. q \in e.bitmap => q \in f.ex.bitmap  BY <1>1 DEF Popped
  <2> QED  BY <2>1, <2>2 DEF Queued
<1>2. CASE q = p /\ f.ex # e
  <2> DEFINE s == e.ready[p]
             t == Tail(s)
  <2>1. s # <<>> /\ f.ex.ready[p] = t  BY <1>2 DEF Popped
  <2>2. s \in Seq(TaskIds)  BY DEF QueuesTyped
  <2>3. /\ Head(s) = s[1] /\ Len(s) \in Nat \ {0} /\ DOMAIN s = 1 .. Len(s)
        /\ DOMAIN t = 1 .. Len(s) - 1 /\ \A k \in 1 .. Len(s) - 1 : t[k] = s[k + 1]
        /\ t = <<>> <=> Len(s) = 1
    BY <2>1, <2>2, TailFacts
  <2>4. Head(s) = f.got \/ e.tasks[Head(s)] = NoTask  BY <1>2 DEF Popped
  <2>5. p \in e.bitmap => p \in f.ex.bitmap \/ t = <<>>  BY <1>2 DEF Popped
  <2>6. Queued(e, q) = {s[k] : k \in DOMAIN s} /\ Queued(f.ex, q) = {t[k] : k \in DOMAIN t}
    BY <1>2, <2>1 DEF Queued
  <2> HIDE DEF s, t
  <2>7. {t[k] : k \in DOMAIN t} \subseteq {s[k] : k \in DOMAIN s}
    <3>1. \A k \in DOMAIN t : k + 1 \in DOMAIN s /\ t[k] = s[k + 1]  BY <2>3
    <3> QED  BY <3>1
  <2>8. ASSUME NEW k \in DOMAIN s
        PROVE  s[k] = Head(s) \/ s[k] \in {t[j] : j \in DOMAIN t}
    <3>1. CASE k = 1  BY <3>1, <2>3
    <3>2. CASE k # 1
      <4>1. k - 1 \in DOMAIN t /\ t[k - 1] = s[k]  BY <3>2, <2>3
      <4> QED  BY <4>1
    <3> QED  BY <3>1, <3>2
  <2>9. t = <<>> => {t[k] : k \in DOMAIN t} = {}  BY <2>3
  <2> QED  BY <1>2, <2>4, <2>5, <2>6, <2>7, <2>8, <2>9
<1> QED  BY <1>1, <1>2

(* From an exact structure the pop of a marked queue returns a coroutine   *)
(* of that priority and leaves it in no queue.                             *)
LEMMA PoppedExact ==
    ASSUME NEW e, ExecutorType(e), QueuesTyped(e), Exact(e), NEW p \in Prios, p \in e.bitmap,
           NEW f, Popped(e, f, p)
    PROVE  /\ Exact(f.ex)
           /\ f.got \in Live(e) /\ e.tasks[f.got] = p /\ f.ex.current = f.got
           /\ \A q \in Prios : f.got \notin Queued(f.ex, q)
<1> DEFINE s == e.ready[p]
           t == Tail(s)
<1>1. s # <<>> /\ s \in Seq(TaskIds)  BY DEF Exact, QueuesTyped
<1>2. /\ Head(s) = s[1] /\ Head(s) \in TaskIds
      /\ Len(s) \in Nat \ {0} /\ DOMAIN s = 1 .. Len(s)
      /\ DOMAIN t = 1 .. Len(s) - 1 /\ \A k \in 1 .. Len(s) - 1 : t[k] = s[k + 1]
      /\ t = <<>> <=> Len(s) = 1
  BY <1>1, TailFacts
<1>3. /\ \A k \in 1 .. Len(s) : e.tasks[s[k]] = p
      /\ \A j, k \in 1 .. Len(s) : s[j] = s[k] => j = k
  BY <1>2 DEF Exact
<1>4. e.tasks[Head(s)] = p /\ p # NoTask  BY <1>2, <1>3, Constants
<1>5. /\ f.got \in Live(e) /\ f.got = Head(s) /\ f.ex.ready[p] = t /\ f.ex.current = f.got
      /\ f.ex.bitmap = IF t = <<>> THEN e.bitmap \ {p} ELSE e.bitmap
  BY <1>1, <1>4 DEF Popped
<1>6. f.ex.tasks = e.tasks /\ \A q \in Prios \ {p} : f.ex.ready[q] = e.ready[q]
  BY DEF Popped
<1> HIDE DEF s, t
<1>7. \A k \in 1 .. Len(s) - 1 : e.tasks[t[k]] = p /\ t[k] # Head(s)
  BY <1>2, <1>3
<1>8. \A j, k \in 1 .. Len(s) - 1 : t[j] = t[k] => j = k
  <2>1. ASSUME NEW j \in 1 .. Len(s) - 1, NEW k \in 1 .. Len(s) - 1, t[j] = t[k]  PROVE j = k
    <3>1. s[j + 1] = s[k + 1]  BY <1>2, <2>1
    <3>2. j + 1 = k + 1  BY <3>1, <1>2, <1>3
    <3> QED  BY <3>2
  <2> QED  BY <2>1
<1>9. ASSUME NEW q \in Prios
      PROVE  /\ q \in f.ex.bitmap <=> f.ex.ready[q] # <<>>
             /\ \A k \in DOMAIN f.ex.ready[q] :
                   /\ f.ex.tasks[f.ex.ready[q][k]] = q
                   /\ \A j \in DOMAIN f.ex.ready[q] :
                         f.ex.ready[q][j] = f.ex.ready[q][k] => j = k
  <2>1. CASE q = p  BY <2>1, <1>2, <1>5, <1>6, <1>7, <1>8
  <2>2. CASE q # p
    <3>1. f.ex.ready[q] = e.ready[q] /\ (q \in f.ex.bitmap <=> q \in e.bitmap)
      BY <2>2, <1>5, <1>6
    <3> QED  BY <3>1, <1>6 DEF Exact
  <2> QED  BY <2>1, <2>2
<1>10. Exact(f.ex)  BY <1>9 DEF Exact
<1>11. ASSUME NEW q \in Prios  PROVE f.got \notin Queued(f.ex, q)
  <2>1. CASE q = p  BY <2>1, <1>2, <1>5, <1>7 DEF Queued
  <2>2. CASE q # p
    <3>1. \A k \in DOMAIN e.ready[q] : e.tasks[e.ready[q][k]] = q  BY DEF Exact
    <3> QED  BY <2>2, <3>1, <1>4, <1>5, <1>6 DEF Queued
  <2> QED  BY <2>1, <2>2
<1> QED  BY <1>4, <1>5, <1>10, <1>11

(* fetch finds no bit set, or pops the queue of the first one. *)
LEMMA FetchCases ==
    ASSUME NEW ex, ExecutorType(ex), QueuesTyped(ex)
    PROVE  LET e == ActualWake(ex)
               f == Fetch(ex)
           IN  \/ e.bitmap = {} /\ f.ex = e /\ f.got = NoCid
               \/ \E p \in e.bitmap : /\ \A q \in e.bitmap : p <= q
                                      /\ Popped(e, f, p)
<1> DEFINE e == ActualWake(ex)
           f == Fetch(ex)
           p == find_first_one(e.bitmap)
<1>1. ExecutorType(e) /\ QueuesTyped(e)  BY ActualWakeFacts
<1>2. f = IF e.bitmap = {} THEN [ex |-> e, got |-> NoCid] ELSE PopReady(e, p)
  BY DEF Fetch
<1> HIDE DEF e, f
<1>3. CASE e.bitmap = {}
  <2>1. f = [ex |-> e, got |-> NoCid]  BY <1>2, <1>3
  <2> QED  BY <1>3, <2>1 DEF e, f
<1>4. CASE e.bitmap # {}
  <2>1. e.bitmap \in SUBSET Prios /\ e.bitmap \in SUBSET Nat
    BY <1>1, Constants DEF ExecutorType
  <2>2. p \in e.bitmap /\ \A q \in e.bitmap : p <= q  BY <1>4, <2>1, FirstOne
  <2>3. Popped(e, f, p)  BY <1>1, <1>2, <1>4, <2>1, <2>2, PopReadyFacts
  <2> HIDE DEF p
  <2> QED  BY <2>2, <2>3 DEF e, f
<1> QED  BY <1>3, <1>4

(* What fetch leaves alone. *)
LEMMA FetchFacts ==
    ASSUME NEW ex, ExecutorType(ex), QueuesTyped(ex)
    PROVE  LET f == Fetch(ex)
           IN  /\ ExecutorType(f.ex) /\ QueuesTyped(f.ex)
               /\ f.ex.tasks = ex.tasks /\ f.ex.num = ex.num /\ f.ex.ids = ex.ids
               /\ f.ex.delay = {}
               /\ f.ex.panic = ActualWake(ex).panic
               /\ f.got \in Live(ex) \cup {NoCid}
               /\ f.got # NoCid => f.ex.current = f.got
<1> DEFINE e == ActualWake(ex)
           f == Fetch(ex)
<1>1. ExecutorType(e) /\ QueuesTyped(e) /\ Frame(ex, e) /\ e.delay = {}
  BY ActualWakeFacts
<1>2. Live(e) = Live(ex)  BY <1>1 DEF Frame, Live
<1>3. \/ e.bitmap = {} /\ f.ex = e /\ f.got = NoCid
      \/ \E p \in e.bitmap : Popped(e, f, p)
  BY FetchCases
<1> HIDE DEF e, f
<1>4. CASE f.ex = e /\ f.got = NoCid  BY <1>1, <1>4 DEF Frame, e, f
<1>5. CASE \E p \in e.bitmap : Popped(e, f, p)
  BY <1>1, <1>2, <1>5 DEF Frame, Popped, e, f
<1> QED  BY <1>3, <1>4, <1>5

(* remove_task of a coroutine in no queue. *)
LEMMA RemoveTaskFacts ==
    ASSUME NEW ex, ExecutorType(ex), IdsMatch(ex), NEW c \in Live(ex)
    PROVE  LET e == RemoveTask(ex, c)
           IN  /\ ExecutorType(e) /\ IdsMatch(e)
               /\ e.ready = ex.ready /\ e.bitmap = ex.bitmap /\ e.delay = ex.delay
               /\ e.panic = ex.panic /\ e.current = ex.current
               /\ e.tasks = [ex.tasks EXCEPT ![c] = NoTask]
               /\ Live(e) = Live(ex) \ {c}
               /\ Cardinality(Live(e)) = Cardinality(Live(ex)) - 1
<1> DEFINE e == RemoveTask(ex, c)
           t == [ex.tasks EXCEPT ![c] = NoTask]
           n == ex.num - 1
           i == ex.ids \ {c}
<1>1. c \in TaskIds  BY DEF Live
<1>2. /\ Cardinality(Live(ex) \ {c}) = Cardinality(Live(ex)) - 1
      /\ Cardinality(Live(ex) \ {c}) \in Nat
  BY LiveFinite, FS_RemoveElement, FS_CardinalityType
<1>3. /\ t \in [TaskIds -> Prios \cup {NoTask}] /\ n \in Nat /\ i \in SUBSET Cids
      /\ n = Cardinality(Live(ex) \ {c})
  BY <1>1, <1>2 DEF ExecutorType, IdsMatch
<1>4. e = [ex EXCEPT !.tasks = t, !.num = n, !.ids = i]
  BY DEF RemoveTask, ExecutorType
<1>5. \A d \in TaskIds : t[d] = IF d = c THEN NoTask ELSE ex.tasks[d]
  BY DEF ExecutorType
<1> HIDE DEF t, n, i, e
<1>6. /\ ExecutorType(e)
      /\ e.ready = ex.ready /\ e.bitmap = ex.bitmap /\ e.delay = ex.delay
      /\ e.panic = ex.panic /\ e.current = ex.current
      /\ e.tasks = t /\ e.num = n /\ e.ids = i
  BY <1>3, <1>4 DEF ExecutorType
<1>7. Live(e) = Live(ex) \ {c}  BY <1>5, <1>6 DEF Live
<1>8. IdsMatch(e)  BY <1>3, <1>6, <1>7 DEF IdsMatch, i
<1> QED  BY <1>2, <1>6, <1>7, <1>8 DEF e, t
=============================================================================
