------------------------- MODULE RingBufferProofs -------------------------
(***************************************************************************)
(* Proofs, for every Size and every set of items, that the executor's      *)
(* RingBuffer keeps RingInv and implements a FIFO queue of capacity        *)
(* Size - 1.                                                               *)
(***************************************************************************)
EXTENDS RingBuffer, SequenceTheorems, TLAPS

-----------------------------------------------------------------------------
(* The index arithmetic of RingIndex. *)

(* (i + 1) % SIZE, the way both operations advance an index, is one slot   *)
(* further, back to slot 0 at the end of the array.                        *)
LEMMA AdvanceIsSlot ==
    ASSUME NEW i \in Slots
    PROVE  /\ Advance(i) = Slot(i, 1)
           /\ Slot(i, 1) \in Slots
           /\ Pred(Slot(i, 1)) = i
<1>1. i + 1 \in 1 .. Size  BY SizeAssumption DEF Slots
<1>2. CASE i + 1 = Size
  <2>1. Size % Size = 0  BY SizeAssumption
  <2> QED  BY <1>2, <2>1, SizeAssumption DEF Slots, Slot, Pred, Advance
<1>3. CASE i + 1 < Size
  <2>1. (i + 1) % Size = i + 1  BY <1>3, SizeAssumption DEF Slots
  <2> QED  BY <1>3, <2>1, SizeAssumption DEF Slots, Slot, Pred, Advance
<1> QED  BY <1>1, <1>2, <1>3, SizeAssumption

(* Walking k slots from s stays in the array. *)
LEMMA SlotInRange ==
    ASSUME NEW s \in Slots, NEW k \in 0 .. Size
    PROVE  Slot(s, k) \in Slots
BY SizeAssumption DEF Slots, Slot

(* No slot is met twice within one turn of the ring. *)
LEMMA SlotInjective ==
    ASSUME NEW s \in Slots, NEW j \in 0 .. Size - 1, NEW k \in 0 .. Size - 1,
           Slot(s, j) = Slot(s, k)
    PROVE  j = k
BY SizeAssumption DEF Slots, Slot

(* One step and k steps commute, from either end of the occupied part. *)
LEMMA SlotSucc ==
    ASSUME NEW s \in Slots, NEW k \in 0 .. Size - 1
    PROVE  /\ Slot(Slot(s, 1), k) = Slot(s, k + 1)
           /\ Slot(Slot(s, k), 1) = Slot(s, k + 1)
           /\ Slot(s, 0) = s
BY SizeAssumption DEF Slots, Slot

(* What size() computes with % is the distance around the ring. *)
LEMMA ModIsDist ==
    ASSUME NEW s \in Slots, NEW e \in Slots
    PROVE  (e + Size - s) % Size = Dist(s, e) /\ Dist(s, e) \in 0 .. Size - 1
<1>1. Dist(s, e) \in 0 .. Size - 1
  BY SizeAssumption DEF Dist, Slots
<1>2. CASE s <= e
  <2>1. e + Size - s = Dist(s, e) + Size
    BY <1>2, SizeAssumption DEF Dist, Slots
  <2>2. (Dist(s, e) + Size) % Size = Dist(s, e)  BY <1>1, SizeAssumption
  <2> QED  BY <1>1, <2>1, <2>2
<1>3. CASE ~(s <= e)
  <2>1. e + Size - s = Dist(s, e)
    BY <1>3, SizeAssumption DEF Dist, Slots
  <2>2. Dist(s, e) % Size = Dist(s, e)  BY <1>1, SizeAssumption
  <2> QED  BY <1>1, <2>1, <2>2
<1> QED  BY <1>2, <1>3

(* size() is the number of items held. *)
LEMMA SizeIsCount ==
    ASSUME start \in Slots, end \in Slots
    PROVE  size = Count /\ Count \in 0 .. Size - 1
BY ModIsDist DEF size, Count

(* The same for the state after a step. *)
LEMMA SizeIsCountPrime ==
    ASSUME start' \in Slots, end' \in Slots
    PROVE  size' = Count' /\ Count' \in 0 .. Size - 1
<1>1. /\ (end' + Size - start') % Size = Dist(start', end')
      /\ Dist(start', end') \in 0 .. Size - 1
  BY ModIsDist
<1>2. size' = (end' + Size - start') % Size  BY DEF size
<1>3. Count' = Dist(start', end')  BY DEF Count, Dist
<1> QED  BY <1>1, <1>2, <1>3

(* end lies Count slots after start; the ring is full with SIZE - 1 items  *)
(* and a push that is not refused adds one, a pop takes one.               *)
LEMMA CountSteps ==
    ASSUME start \in Slots, end \in Slots
    PROVE  /\ Slot(start, Count) = end
           /\ full <=> Count = Size - 1
           /\ empty <=> Count = 0
BY AdvanceIsSlot, SizeAssumption DEF Count, Dist, Slots, Slot, full, empty

(* A successful push adds one to the count and leaves start alone. *)
LEMMA PushCount ==
    ASSUME start \in Slots, end \in Slots, ~full,
           start' = start, end' = Advance(end)
    PROVE  /\ Count' = Count + 1
           /\ end' \in Slots
<1>1. end' = Slot(end, 1)  BY AdvanceIsSlot
<1>2. end' # start  BY DEF full
<1> QED  BY <1>1, <1>2, SizeAssumption DEF Count, Dist, Slots, Slot

(* A successful pop takes one off the count. *)
LEMMA PopCount ==
    ASSUME start \in Slots, end \in Slots, ~empty,
           start' = Advance(start), end' = end
    PROVE  /\ Count' = Count - 1
           /\ start' \in Slots
           /\ start' = Slot(start, 1)
<1>1. start' = Slot(start, 1)  BY AdvanceIsSlot
<1> QED  BY <1>1, SizeAssumption DEF Count, Dist, Slots, Slot, empty

-----------------------------------------------------------------------------

(* A new ring satisfies the invariant. *)
LEMMA InitRingInv == Init => RingInv
<1> SUFFICES ASSUME Init
             PROVE  RingInv
  OBVIOUS
<1>1. start \in Slots /\ end \in Slots  BY SizeAssumption DEF Init, Slots
<1>2. size = Count  BY <1>1, SizeIsCount
<1> QED  BY <1>1, <1>2 DEF Init, RingInv, Count, Dist

(* push and pop preserve the invariant. *)
LEMMA NextRingInv == RingInv /\ [Next]_vars => RingInv'
<1> SUFFICES ASSUME RingInv, [Next]_vars
             PROVE  RingInv'
  OBVIOUS
<1> USE SizeAssumption
<1>r. start \in Slots /\ end \in Slots /\ Count \in 0 .. Size - 1
  BY SizeIsCount DEF RingInv
<1>1. ASSUME NEW item \in Item, Push(item)
      PROVE  RingInv'
  <2>1. CASE full
    <3>1. UNCHANGED <<data, start, end, popped>> /\ pushed' = "err"
      BY <1>1, <2>1 DEF Push
    <3> QED  BY <3>1 DEF RingInv, Count, Dist, size, Slot
  <2>2. CASE ~full
    <3>1. /\ data' = [data EXCEPT ![end] = item]
          /\ start' = start
          /\ end' = Advance(end)
          /\ pushed' = "ok"
          /\ popped' = popped
      BY <1>1, <2>2 DEF Push
    <3>2. Count' = Count + 1 /\ end' \in Slots  BY <3>1, <2>2, <1>r, PushCount
    <3>3. Slot(start, Count) = end  BY <1>r, CountSteps
    <3>4. ASSUME NEW k \in 0 .. Count
          PROVE  data'[Slot(start, k)] \in Item
      <4>1. Slot(start, k) \in Slots  BY <1>r, SlotInRange
      <4>2. CASE k = Count  BY <4>2, <3>1, <3>3, <1>r DEF RingInv
      <4>3. CASE k # Count
        <5>1. Slot(start, k) # end  BY <4>3, <3>3, <1>r, SlotInjective
        <5>2. data[Slot(start, k)] \in Item  BY <4>3, <1>r DEF RingInv
        <5> QED  BY <5>1, <5>2, <4>1, <3>1 DEF RingInv
      <4> QED  BY <4>2, <4>3
    <3>5. \A k \in 0 .. Count' - 1 : data'[Slot(start', k)] \in Item
      BY <3>1, <3>2, <3>4, <1>r
    <3>6. size' = Count'  BY <3>1, <3>2, <1>r, SizeIsCountPrime
    <3>7. data' \in [Slots -> Item \cup {None}]  BY <3>1 DEF RingInv
    <3> QED  BY <3>1, <3>2, <3>5, <3>6, <3>7, <1>r DEF RingInv, Slot
  <2> QED  BY <2>1, <2>2
<1>2. CASE Pop
  <2>1. CASE empty
    <3>1. UNCHANGED <<data, start, end, pushed>> /\ popped' = None
      BY <1>2, <2>1 DEF Pop
    <3> QED  BY <3>1 DEF RingInv, Count, Dist, size, Slot
  <2>2. CASE ~empty
    <3>1. /\ popped' = data[start]
          /\ start' = Advance(start)
          /\ UNCHANGED <<data, end, pushed>>
      BY <1>2, <2>2 DEF Pop
    <3>2. Count' = Count - 1 /\ start' \in Slots /\ start' = Slot(start, 1)
      BY <3>1, <2>2, <1>r, PopCount
    <3>3. \A k \in 0 .. Count - 1 : Slot(start', k) = Slot(start, k + 1)
      BY <3>2, <1>r, SlotSucc
    <3>4. \A k \in 0 .. Count - 2 : data[Slot(start', k)] \in Item
      BY <3>3, <1>r DEF RingInv
    <3>5. size' = Count'  BY <3>1, <3>2, <1>r, SizeIsCountPrime
    <3>6. popped' \in Item \cup {None}  BY <3>1, <1>r DEF RingInv
    <3> QED  BY <3>1, <3>2, <3>4, <3>5, <3>6, <1>r DEF RingInv, Slot
  <2> QED  BY <2>1, <2>2
<1>3. CASE UNCHANGED vars
  BY <1>3 DEF vars, RingInv, Count, Dist, size, Slot
<1> QED  BY <1>1, <1>2, <1>3 DEF Next

(* The ready queue's indices stay in its array, size() counts the items it *)
(* holds and never reaches SIZE.                                           *)
THEOREM RingInvariant == Spec => []RingInv
<1>1. Init => RingInv  BY InitRingInv
<1>2. RingInv /\ [Next]_vars => RingInv'  BY NextRingInv
<1> QED  BY <1>1, <1>2, PTL DEF Spec

-----------------------------------------------------------------------------

(* What the ring holds is a sequence of Count items. *)
LEMMA ContentsSeq ==
    ASSUME RingInv
    PROVE  /\ Contents \in Seq(Item)
           /\ Len(Contents) = Count
           /\ \A k \in 1 .. Count : Contents[k] = data[Slot(start, k - 1)]
<1>1. Count \in Nat  BY SizeIsCount, SizeAssumption DEF RingInv
<1>2. \A k \in 1 .. Count : data[Slot(start, k - 1)] \in Item
  BY <1>1 DEF RingInv
<1>3. Contents \in [1 .. Count -> Item]  BY <1>2 DEF Contents
<1> QED  BY <1>1, <1>3 DEF Contents

(* The same for the state after a step. *)
LEMMA ContentsSeqPrime ==
    ASSUME RingInv'
    PROVE  /\ Contents' \in Seq(Item)
           /\ Len(Contents') = Count'
           /\ \A k \in 1 .. Count' : Contents'[k] = data'[Slot(start', k - 1)]
<1>1. Count' \in Nat  BY SizeIsCountPrime, SizeAssumption DEF RingInv
<1>2. \A k \in 1 .. Count' : data'[Slot(start', k - 1)] \in Item
  <2>1. \A j \in 0 .. Count' - 1 : data'[Slot(start', j)] \in Item
    BY DEF RingInv
  <2>2. \A n \in Nat : \A k \in 1 .. n : k - 1 \in 0 .. n - 1  OBVIOUS
  <2> QED  BY <1>1, <2>1, <2>2
<1>3. Contents' = [k \in 1 .. Count' |-> data'[Slot(start', k - 1)]]
  BY DEF Contents, Slot
<1>4. Contents' \in [1 .. Count' -> Item]  BY <1>2, <1>3
<1>5. \A k \in 1 .. Count' : Contents'[k] = data'[Slot(start', k - 1)]
  BY <1>3
<1> QED  BY <1>1, <1>4, <1>5

(* The executor's ready queue of one priority is a FIFO queue of capacity  *)
(* MAX_TASK_NUM - 1: coroutines of one priority run in wake order, and the *)
(* unwrap() of a push panics only when that many are queued.               *)
THEOREM Refinement == Spec => RefinesFifo
<1>1. Init => Fifo!Init
  <2> SUFFICES ASSUME Init
               PROVE  Fifo!Init
    OBVIOUS
  <2>1. RingInv  BY InitRingInv
  <2>2. Contents = <<>>  BY <2>1, ContentsSeq DEF Init, Count, Dist
  <2> QED  BY <2>2 DEF Init, Fifo!Init
<1>2. RingInv /\ RingInv' /\ [Next]_vars => [Fifo!Next]_(Fifo!vars)
  <2> SUFFICES ASSUME RingInv, RingInv', [Next]_vars
               PROVE  [Fifo!Next]_(Fifo!vars)
    OBVIOUS
  <2> USE SizeAssumption
  <2>r. start \in Slots /\ end \in Slots /\ Count \in 0 .. Size - 1
    BY SizeIsCount DEF RingInv
  <2>c. /\ Contents \in Seq(Item)
        /\ Len(Contents) = Count
        /\ \A k \in 1 .. Count : Contents[k] = data[Slot(start, k - 1)]
    BY ContentsSeq
  <2>d. /\ Contents' \in Seq(Item)
        /\ Len(Contents') = Count'
        /\ \A k \in 1 .. Count' : Contents'[k] = data'[Slot(start', k - 1)]
    BY ContentsSeqPrime
  <2>1. ASSUME NEW item \in Item, Push(item)
        PROVE  Fifo!Next
    <3>1. CASE full
      <4>1. UNCHANGED <<data, start, end, popped>> /\ pushed' = "err"
        BY <2>1, <3>1 DEF Push
      <4>2. Contents' = Contents  BY <4>1 DEF Contents, Count, Dist, Slot
      <4>3. Len(Contents) = Size - 1  BY <3>1, <2>r, <2>c, CountSteps
      <4> QED  BY <4>1, <4>2, <4>3 DEF Fifo!Next, Fifo!PushFull
    <3>2. CASE ~full
      <4>1. /\ data' = [data EXCEPT ![end] = item]
            /\ start' = start
            /\ end' = Advance(end)
            /\ pushed' = "ok"
            /\ popped' = popped
        BY <2>1, <3>2 DEF Push
      <4>2. Count' = Count + 1 /\ Count < Size - 1
        BY <4>1, <3>2, <2>r, PushCount, CountSteps
      <4>3. Slot(start, Count) = end  BY <2>r, CountSteps
      <4>4. ASSUME NEW k \in 1 .. Count
            PROVE  Contents'[k] = Contents[k]
        <5>1. k - 1 \in 0 .. Size - 1 /\ k - 1 # Count /\ k \in 1 .. Count'
          BY <4>2, <2>r
        <5>2. Slot(start, k - 1) \in Slots  BY <5>1, <2>r, SlotInRange
        <5>3. Slot(start, k - 1) # end  BY <5>1, <4>3, <2>r, SlotInjective
        <5>4. data'[Slot(start, k - 1)] = data[Slot(start, k - 1)]
          BY <5>2, <5>3, <4>1 DEF RingInv
        <5>5. Contents'[k] = data'[Slot(start, k - 1)]  BY <5>1, <4>1, <2>d
        <5> QED  BY <5>4, <5>5, <2>c
      <4>5. Contents'[Count + 1] = item
        <5>1. Contents'[Count + 1] = data'[Slot(start, Count)]
          BY <4>1, <4>2, <2>d, <2>r
        <5> QED  BY <5>1, <4>1, <4>3, <2>r DEF RingInv
      <4>6. Contents' = Append(Contents, item)
        <5>1. /\ Append(Contents, item) \in Seq(Item)
              /\ Len(Append(Contents, item)) = Count + 1
              /\ \A k \in 1 .. Count : Append(Contents, item)[k] = Contents[k]
              /\ Append(Contents, item)[Count + 1] = item
          BY <2>c, AppendProperties
        <5>2. \A k \in 1 .. Count + 1 : Contents'[k] = Append(Contents, item)[k]
          BY <5>1, <4>4, <4>5, <2>r
        <5> QED  BY <5>1, <5>2, <4>2, <2>d, SeqEqual
      <4> QED  BY <4>1, <4>2, <4>6, <2>c DEF Fifo!Next, Fifo!Push
    <3> QED  BY <3>1, <3>2
  <2>2. CASE Pop
    <3>1. CASE empty
      <4>1. UNCHANGED <<data, start, end, pushed>> /\ popped' = None
        BY <2>2, <3>1 DEF Pop
      <4>2. Contents' = Contents  BY <4>1 DEF Contents, Count, Dist, Slot
      <4>3. Contents = <<>>  BY <3>1, <2>r, <2>c, CountSteps
      <4> QED  BY <4>1, <4>2, <4>3 DEF Fifo!Next, Fifo!PopEmpty
    <3>2. CASE ~empty
      <4>1. /\ popped' = data[start]
            /\ start' = Advance(start)
            /\ UNCHANGED <<data, end, pushed>>
        BY <2>2, <3>2 DEF Pop
      <4>2. /\ Count' = Count - 1
            /\ Count >= 1
            /\ start' = Slot(start, 1)
        BY <4>1, <3>2, <2>r, PopCount, CountSteps
      <4>3. Contents # <<>> /\ Head(Contents) = Contents[1]
        BY <4>2, <2>c
      <4>4. Contents[1] = data[start]
        <5>1. Contents[1] = data[Slot(start, 0)]  BY <4>2, <2>c, <2>r
        <5>2. Slot(start, 0) = start  BY <2>r, SlotSucc
        <5> QED  BY <5>1, <5>2
      <4>5. /\ Tail(Contents) \in Seq(Item)
            /\ Len(Tail(Contents)) = Count - 1
            /\ \A k \in 1 .. Count - 1 : Tail(Contents)[k] = Contents[k + 1]
        BY <4>3, <2>c, HeadTailProperties
      <4>6. ASSUME NEW k \in 1 .. Count - 1
            PROVE  Contents'[k] = Tail(Contents)[k]
        <5>1. k - 1 \in 0 .. Size - 1 /\ k + 1 \in 1 .. Count /\ k \in 1 .. Count'
          BY <4>2, <2>r
        <5>2. Slot(start', k - 1) = Slot(start, (k - 1) + 1)
          BY <5>1, <4>2, <2>r, SlotSucc
        <5>3. Slot(start', k - 1) = Slot(start, (k + 1) - 1)
          BY <5>2, <5>1
        <5>4. Contents'[k] = data[Slot(start', k - 1)]  BY <5>1, <4>1, <2>d
        <5>5. Contents[k + 1] = data[Slot(start, (k + 1) - 1)]  BY <5>1, <2>c
        <5> QED  BY <5>3, <5>4, <5>5, <4>5
      <4>7. Contents' = Tail(Contents)
        BY <4>2, <4>5, <4>6, <2>d, SeqEqual
      <4> QED  BY <4>1, <4>3, <4>4, <4>7 DEF Fifo!Next, Fifo!Pop
    <3> QED  BY <3>1, <3>2
  <2>3. CASE UNCHANGED vars
    <3>1. Contents' = Contents  BY <2>3 DEF vars, Contents, Count, Dist, Slot
    <3> QED  BY <2>3, <3>1 DEF vars, Fifo!vars
  <2> QED  BY <2>1, <2>2, <2>3 DEF Next
<1> QED
  BY <1>1, <1>2, RingInvariant, PTL DEF Spec, RefinesFifo, Fifo!Spec
=============================================================================
