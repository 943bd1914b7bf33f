----------------------- MODULE SafeRingBufferProofs -----------------------
(***************************************************************************)
(* Proofs, for every Size and every set of items, that SafeRingBuffer      *)
(* keeps RingInv, never races on a slot and implements BoundedFifo.        *)
(***************************************************************************)
EXTENDS SafeRingBuffer, SequenceTheorems, TLAPS

-----------------------------------------------------------------------------
(* The index arithmetic of RingIndex. *)

(* (i + 1) % SIZE, the way both operations advance an index, is one slot   *)
(* further, back to slot 0 at the end of the array.                        *)
LEMMA AdvanceIsSlot ==
    ASSUME NEW i \in Slots
    PROVE  /\ Advance(i) = Slot(i, 1)
           /\ Slot(i, 1) \in Slots
           /\ Pred(Slot(i, 1)) = i
<1>1. i + 1 \in 1 .. Size  BY SizeAssumption DEF Slots
<1>2. CASE i + 1 = Size
  <2>1. Size % Size = 0  BY SizeAssumption
  <2> QED  BY <1>2, <2>1, SizeAssumption DEF Slots, Slot, Pred, Advance
<1>3. CASE i + 1 < Size
  <2>1. (i + 1) % Size = i + 1  BY <1>3, SizeAssumption DEF Slots
  <2> QED  BY <1>3, <2>1, SizeAssumption DEF Slots, Slot, Pred, Advance
<1> QED  BY <1>1, <1>2, <1>3, SizeAssumption

(* Walking k slots from s stays in the array. *)
LEMMA SlotInRange ==
    ASSUME NEW s \in Slots, NEW k \in 0 .. Size
    PROVE  Slot(s, k) \in Slots
BY SizeAssumption DEF Slots, Slot

(* No slot is met twice within one turn of the ring. *)
LEMMA SlotInjective ==
    ASSUME NEW s \in Slots, NEW j \in 0 .. Size - 1, NEW k \in 0 .. Size - 1,
           Slot(s, j) = Slot(s, k)
    PROVE  j = k
BY SizeAssumption DEF Slots, Slot

(* One step and k steps commute, from either end of the occupied part. *)
LEMMA SlotSucc ==
    ASSUME NEW s \in Slots, NEW k \in 0 .. Size - 1
    PROVE  /\ Slot(Slot(s, 1), k) = Slot(s, k + 1)
           /\ Slot(Slot(s, k), 1) = Slot(s, k + 1)
           /\ Slot(s, 0) = s
BY SizeAssumption DEF Slots, Slot

-----------------------------------------------------------------------------
(* The mapped positions head and tail are slots. *)
LEMMA EndsInRange ==
    ASSUME TypeOK
    PROVE  head \in Slots /\ tail \in Slots
BY SizeAssumption DEF TypeOK, Slots, head, tail, Pred

-----------------------------------------------------------------------------
(* The invariant. *)

(* A buffer made by SafeRingBuffer::new satisfies the invariant. *)
LEMMA InitRingInv == Init => RingInv
BY SizeAssumption
   DEF Init, New, RingInv, TypeOK, IndexInv, DataInv, Slots, Slot, head, tail

(* Every access of push_safe and pop_safe preserves the invariant. *)
LEMMA NextRingInv == RingInv /\ [Next]_vars => RingInv'
<1> SUFFICES ASSUME RingInv, [Next]_vars
             PROVE  RingInv'
  OBVIOUS
<1> USE SizeAssumption, NoneAssumption DEF RingInv
<1>e. head \in Slots /\ tail \in Slots  BY EndsInRange
<1>1. ASSUME NEW item \in Item, PushTest(item)
      PROVE  RingInv'
  <2>1. head' = head /\ tail' = tail  BY <1>1 DEF PushTest, head, tail
  <2> QED  BY <1>1, <2>1 DEF PushTest, TypeOK, IndexInv, DataInv, Slot
<1>2. CASE PushWrite
  <2>1. head' = head /\ tail' = tail /\ tail = end
    BY <1>2 DEF PushWrite, head, tail
  <2>2. \A k \in 0 .. count - 1 : Slot(head, k) # end
    <3>1. count \in 0 .. Size - 1 /\ end = Slot(head, count)
      BY <1>2, <2>1 DEF PushWrite, IndexInv, TypeOK
    <3> QED  BY <3>1, <1>e, SlotInjective
  <2>3. \A k \in 0 .. count - 1 : Slot(head, k) \in Slots
    BY <1>e, SlotInRange DEF TypeOK
  <2>4. TypeOK'  BY <1>2 DEF PushWrite, TypeOK, IndexInv
  <2>5. IndexInv'  BY <1>2, <2>1 DEF PushWrite, IndexInv, Slot
  <2>6. \A k \in 0 .. count' - 1 : data'[Slot(head', k)] \in Item
    BY <1>2, <2>1, <2>2, <2>3 DEF PushWrite, DataInv, Slot, TypeOK
  <2>7. data'[tail'] = pitem'  BY <1>2, <2>1 DEF PushWrite, TypeOK
  <2>8. cpc \in {"advance", "sub"} => head # end
    <3>1. cpc \in {"advance", "sub"} => Slot(head, 0) # end
      BY <2>2 DEF IndexInv, TypeOK
    <3> QED  BY <3>1, <1>e, SlotSucc
  <2>9. cpc' \in {"advance", "sub"} => data'[head'] = citem'
    BY <1>2, <2>1, <2>8, <1>e DEF PushWrite, DataInv, TypeOK
  <2> QED  BY <2>4, <2>5, <2>6, <2>7, <2>9, <1>2 DEF PushWrite, DataInv, Slot, head
<1>3. CASE PushAdvance
  <2>1. /\ end' = Slot(end, 1)
        /\ end' \in Slots
        /\ Pred(end') = end
    BY <1>3, AdvanceIsSlot DEF PushAdvance, TypeOK
  <2>2. head' = head /\ tail' = tail
    BY <1>3, <2>1 DEF PushAdvance, head, tail, Pred
  <2> QED  BY <1>3, <2>1, <2>2 DEF PushAdvance, TypeOK, IndexInv, DataInv, Slot
<1>4. CASE PushAdd
  <2>1. /\ head' = head
        /\ tail = Pred(end)
        /\ tail' = end
    BY <1>4 DEF PushAdd, head, tail
  <2>2. Slot(Pred(end), 1) = end  BY DEF TypeOK, Slots, Slot, Pred
  <2>3. tail' = Slot(head, count + 1)
    <3>1. count \in 0 .. Size - 1 /\ tail = Slot(head, count)
      BY <1>4 DEF PushAdd, IndexInv, TypeOK
    <3>2. Slot(Slot(head, count), 1) = Slot(head, count + 1)
      BY <3>1, <1>e, SlotSucc
    <3> QED  BY <3>1, <3>2, <2>1, <2>2
  <2>4. data[Slot(head, count)] \in Item
    BY <1>4 DEF PushAdd, IndexInv, DataInv
  <2>5. \A k \in 0 .. count : data[Slot(head, k)] \in Item
    BY <2>4 DEF DataInv, TypeOK
  <2>6. TypeOK'  BY <1>4 DEF PushAdd, TypeOK, IndexInv
  <2>7. IndexInv'  BY <1>4, <2>1, <2>3 DEF PushAdd, IndexInv, TypeOK, Slot
  <2>8. DataInv'  BY <1>4, <2>1, <2>5 DEF PushAdd, DataInv, TypeOK, Slot
  <2> QED  BY <2>6, <2>7, <2>8
<1>5. CASE PopTest
  <2>1. head' = head /\ tail' = tail  BY <1>5 DEF PopTest, head, tail
  <2> QED  BY <1>5, <2>1 DEF PopTest, TypeOK, IndexInv, DataInv, Slot
<1>6. CASE PopRead
  <2>1. head' = head /\ tail' = tail /\ head = start
    BY <1>6 DEF PopRead, head, tail
  <2>2. citem' = data[head] /\ data[head] \in Item \cup {None}
    BY <1>6, <2>1, <1>e DEF PopRead, TypeOK
  <2> QED  BY <1>6, <2>1, <2>2 DEF PopRead, TypeOK, IndexInv, DataInv, Slot
<1>7. CASE PopAdvance
  <2>1. /\ start' = Slot(start, 1)
        /\ start' \in Slots
        /\ Pred(start') = start
    BY <1>7, AdvanceIsSlot DEF PopAdvance, TypeOK
  <2>2. head' = head /\ tail' = tail
    BY <1>7, <2>1 DEF PopAdvance, head, tail, Pred
  <2> QED  BY <1>7, <2>1, <2>2 DEF PopAdvance, TypeOK, IndexInv, DataInv, Slot
<1>8. CASE PopSub
  <2>1. /\ head = Pred(start)
        /\ head' = start
        /\ tail' = tail
    BY <1>8 DEF PopSub, head, tail
  <2>2. Slot(head, 1) = start  BY <2>1 DEF TypeOK, Slots, Slot, Pred
  <2>3. count > 0 /\ count - 1 \in 0 .. Size - 1
    BY <1>8 DEF PopSub, IndexInv, TypeOK
  <2>4. \A k \in 0 .. count - 1 : Slot(head', k) = Slot(head, k + 1)
    BY <2>1, <2>2, <1>e, SlotSucc DEF TypeOK
  <2>5. TypeOK'  BY <1>8, <2>3 DEF PopSub, TypeOK
  <2>6. tail' = Slot(head', count - 1)
    BY <2>1, <2>3, <2>4 DEF IndexInv, TypeOK
  <2>7. IndexInv'  BY <1>8, <2>3, <2>6 DEF PopSub, IndexInv, TypeOK, Slot
  <2>8. \A k \in 0 .. count - 2 : data[Slot(head', k)] \in Item
    BY <2>3, <2>4 DEF DataInv, TypeOK
  <2>9. DataInv'  BY <1>8, <2>1, <2>3, <2>8 DEF PopSub, DataInv, TypeOK, Slot
  <2> QED  BY <2>5, <2>7, <2>9
<1>9. CASE UNCHANGED vars
  BY <1>9 DEF vars, TypeOK, IndexInv, DataInv, head, tail, Slot, Pred
<1> QED
  BY <1>1, <1>2, <1>3, <1>4, <1>5, <1>6, <1>7, <1>8, <1>9 DEF Next

(* The fields, the indices and the half-done operations of a shared ring   *)
(* always stand to one another as RingInv says; in particular count never  *)
(* leaves 0..SIZE, so fetch_sub never wraps it.                            *)
THEOREM RingInvariant == Spec => []RingInv
<1>1. Init => RingInv  BY InitRingInv
<1>2. RingInv /\ [Next]_vars => RingInv'  BY NextRingInv
<1> QED  BY <1>1, <1>2, PTL DEF Spec

(* push_safe never stores to the slot that pop_safe is about to read,      *)
(* whatever the interleaving.                                              *)
THEOREM SlotRaceFreedom == Spec => []NoSlotRace
<1>1. RingInv => NoSlotRace
  <2> SUFFICES ASSUME RingInv, ppc = "write", cpc = "read", end = start
               PROVE  FALSE
    BY DEF NoSlotRace
  <2>1. /\ head \in Slots
        /\ head = start
        /\ end = Slot(head, count)
        /\ count \in 1 .. Size - 1
    BY SizeAssumption DEF RingInv, TypeOK, IndexInv, head, tail
  <2>2. Slot(head, count) = Slot(head, 0)
    BY <2>1, SizeAssumption DEF Slot, Slots
  <2> QED  BY <2>1, <2>2, SlotInjective, SizeAssumption
<1> QED  BY <1>1, RingInvariant, PTL

-----------------------------------------------------------------------------
(* The refinement. *)

(* What the ring holds is a sequence of count pushed items. *)
LEMMA ContentsSeq ==
    ASSUME RingInv
    PROVE  /\ Contents \in Seq(Item)
           /\ Len(Contents) = count
           /\ \A k \in 1 .. count : Contents[k] = data[Slot(head, k - 1)]
<1>1. count \in Nat  BY SizeAssumption DEF RingInv, TypeOK
<1>2. \A k \in 1 .. count : data[Slot(head, k - 1)] \in Item
  BY <1>1 DEF RingInv, DataInv
<1>3. Contents \in [1 .. count -> Item]  BY <1>2 DEF Contents
<1> QED  BY <1>1, <1>3 DEF Contents

(* Contents only depends on what it reads. *)
LEMMA ContentsUnchanged ==
    ASSUME head' = head, count' = count, data' = data
    PROVE  Contents' = Contents
BY DEF Contents, Slot

(* The store of push_safe goes to a slot that holds no item yet. *)
LEMMA WriteOutsideContents ==
    ASSUME RingInv, PushWrite
    PROVE  Contents' = Contents
<1>1. /\ head \in Slots
      /\ head' = head
      /\ count' = count
      /\ count \in 0 .. Size - 1
      /\ end = Slot(head, count)
  BY EndsInRange, SizeAssumption
     DEF RingInv, TypeOK, IndexInv, PushWrite, head, tail
<1>2. \A k \in 1 .. count : k - 1 \in 0 .. Size - 1 /\ k - 1 # count
  BY <1>1, SizeAssumption
<1>3. \A k \in 1 .. count : Slot(head, k - 1) # end
  BY <1>1, <1>2, SlotInjective
<1>4. \A k \in 1 .. count : Slot(head, k - 1) \in Slots
  BY <1>1, <1>2, SlotInRange, SizeAssumption
<1>5. \A k \in 1 .. count :
         data'[Slot(head, k - 1)] = data[Slot(head, k - 1)]
  BY <1>3, <1>4 DEF PushWrite, RingInv, TypeOK
<1> QED  BY <1>1, <1>5 DEF Contents, Slot

(* fetch_add appends the stored item to the contents. *)
LEMMA AddAppends ==
    ASSUME RingInv, RingInv', PushAdd
    PROVE  Contents' = Append(Contents, pitem)
<1>1. /\ head' = head
      /\ count' = count + 1
      /\ count \in Nat
      /\ data' = data
      /\ pitem \in Item
      /\ data[Slot(head, count)] = pitem
  BY SizeAssumption DEF RingInv, TypeOK, IndexInv, DataInv, PushAdd, head
<1>2. /\ Contents \in Seq(Item)
      /\ Len(Contents) = count
      /\ \A k \in 1 .. count : Contents[k] = data[Slot(head, k - 1)]
  BY ContentsSeq
<1>3. Contents' = [k \in 1 .. count + 1 |-> data[Slot(head, k - 1)]]
  BY <1>1 DEF Contents, Slot
<1>4. \A k \in 1 .. count + 1 :
         data[Slot(head, k - 1)] = Append(Contents, pitem)[k]
  BY <1>1, <1>2, AppendProperties
<1>5. /\ Append(Contents, pitem) \in Seq(Item)
      /\ Len(Append(Contents, pitem)) = count + 1
      /\ \A k \in 1 .. count + 1 : Append(Contents, pitem)[k] \in Item
  BY <1>1, <1>2, AppendProperties, ElementOfSeq
<1>6. /\ Contents' \in Seq(Item)
      /\ Len(Contents') = count + 1
      /\ \A k \in 1 .. count + 1 : Contents'[k] = Append(Contents, pitem)[k]
  <2>1. \A k \in 1 .. count + 1 : data[Slot(head, k - 1)] \in Item
    BY <1>4, <1>5
  <2>2. count + 1 \in Nat  BY <1>1
  <2>3. Contents' \in [1 .. count + 1 -> Item]  BY <1>3, <2>1
  <2>4. \A k \in 1 .. count + 1 : Contents'[k] = data[Slot(head, k - 1)]
    BY <1>3
  <2>5. Contents' \in Seq(Item) /\ Len(Contents') = count + 1
    BY <2>2, <2>3
  <2> QED  BY <1>4, <2>4, <2>5
<1> QED  BY <1>5, <1>6, SeqEqual

(* fetch_sub removes the oldest item, the one pop_safe returns. *)
LEMMA SubTakesHead ==
    ASSUME RingInv, PopSub
    PROVE  /\ Contents # <<>>
           /\ citem = Head(Contents)
           /\ Contents' = Tail(Contents)
<1>1. /\ head \in Slots
      /\ head' = start
      /\ Slot(head, 1) = start
      /\ count \in 1 .. Size
      /\ count' = count - 1
      /\ data' = data
      /\ data[head] = citem
  BY EndsInRange, SizeAssumption
     DEF RingInv, TypeOK, IndexInv, DataInv, PopSub, head, Slots, Slot, Pred
<1>2. /\ Contents \in Seq(Item)
      /\ Len(Contents) = count
      /\ \A k \in 1 .. count : Contents[k] = data[Slot(head, k - 1)]
  BY ContentsSeq
<1>3. Contents # <<>> /\ Head(Contents) = Contents[1]
  BY <1>1, <1>2
<1>4. Contents[1] = citem
  BY <1>1, <1>2, SlotSucc, SizeAssumption
<1>5. \A k \in 0 .. count - 1 : Slot(start, k) = Slot(head, k + 1)
  BY <1>1, SlotSucc, SizeAssumption
<1>6. Contents' = [k \in 1 .. count - 1 |-> data[Slot(start, k - 1)]]
  BY <1>1 DEF Contents, Slot
<1>7. \A k \in 1 .. count - 1 : data[Slot(start, k - 1)] = Contents[k + 1]
  BY <1>1, <1>2, <1>5
<1>8. /\ Tail(Contents) \in Seq(Item)
      /\ Len(Tail(Contents)) = count - 1
      /\ \A k \in 1 .. count - 1 : Tail(Contents)[k] = Contents[k + 1]
  BY <1>1, <1>2, <1>3, HeadTailProperties
<1>9. \A k \in 1 .. count - 1 : Contents[k + 1] \in Item
  BY <1>1, <1>2, ElementOfSeq
<1>10. /\ Contents' \in Seq(Item)
       /\ Len(Contents') = count - 1
       /\ \A k \in 1 .. count - 1 : Contents'[k] = Tail(Contents)[k]
  BY <1>1, <1>6, <1>7, <1>8, <1>9
<1>11. Contents' = Tail(Contents)  BY <1>8, <1>10, SeqEqual
<1> QED  BY <1>3, <1>4, <1>11

(* One pusher and one popper on a SafeRingBuffer cannot tell it from a     *)
(* FIFO queue of capacity SIZE, however their accesses interleave.         *)
THEOREM Refinement == Spec => RefinesFifo
<1>1. Init => Fifo!Init
  <2> SUFFICES ASSUME Init
               PROVE  Fifo!Init
    OBVIOUS
  <2>1. RingInv  BY InitRingInv
  <2>2. Contents = <<>>
    BY <2>1, ContentsSeq DEF Init, New
  <2> QED  BY <2>2 DEF Init, Fifo!Init
<1>2. RingInv /\ RingInv' /\ [Next]_vars => [Fifo!Next]_(Fifo!vars)
  <2> SUFFICES ASSUME RingInv, RingInv', [Next]_vars
               PROVE  [Fifo!Next]_(Fifo!vars)
    OBVIOUS
  <2> USE SizeAssumption
  <2>c. /\ Contents \in Seq(Item)
        /\ Len(Contents) = count
        /\ count \in 0 .. Size
    BY ContentsSeq DEF RingInv, TypeOK
  <2>1. ASSUME NEW item \in Item, PushTest(item)
        PROVE  [Fifo!Next]_(Fifo!vars)
    <3>1. Contents' = Contents
      BY <2>1, ContentsUnchanged DEF PushTest, head
    <3>2. popped' = popped  BY <2>1 DEF PushTest
    <3>3. CASE pushed' = pushed
      BY <3>1, <3>2, <3>3 DEF Fifo!vars
    <3>4. CASE pushed' # pushed
      <4>1. count = Size /\ pushed' = "err"  BY <2>1, <3>4 DEF PushTest
      <4> QED  BY <3>1, <3>2, <4>1, <2>c DEF Fifo!Next, Fifo!PushFull
    <3> QED  BY <3>3, <3>4
  <2>2. CASE PushWrite
    BY <2>2, WriteOutsideContents DEF PushWrite, Fifo!vars
  <2>3. CASE PushAdvance
    BY <2>3, ContentsUnchanged DEF PushAdvance, head, Fifo!vars
  <2>4. CASE PushAdd
    <3>1. Contents' = Append(Contents, pitem)  BY <2>4, AddAppends
    <3>2. count < Size /\ pitem \in Item  BY <2>4 DEF PushAdd, RingInv, IndexInv
    <3>3. Fifo!Push(pitem)
      BY <2>4, <3>1, <3>2, <2>c DEF PushAdd, Fifo!Push
    <3> QED  BY <3>2, <3>3 DEF Fifo!Next
  <2>5. CASE PopTest
    <3>1. Contents' = Contents
      BY <2>5, ContentsUnchanged DEF PopTest, head
    <3>2. pushed' = pushed  BY <2>5 DEF PopTest
    <3>3. CASE popped' = popped
      BY <3>1, <3>2, <3>3 DEF Fifo!vars
    <3>4. CASE popped' # popped
      <4>1. count = 0 /\ popped' = None  BY <2>5, <3>4 DEF PopTest
      <4>2. Contents = <<>>  BY <4>1, <2>c
      <4> QED  BY <3>1, <3>2, <4>1, <4>2 DEF Fifo!Next, Fifo!PopEmpty
    <3> QED  BY <3>3, <3>4
  <2>6. CASE PopRead
    BY <2>6, ContentsUnchanged DEF PopRead, head, Fifo!vars
  <2>7. CASE PopAdvance
    <3>1. Pred(start') = start
      BY <2>7, AdvanceIsSlot DEF PopAdvance, RingInv, TypeOK
    <3>2. head' = head  BY <2>7, <3>1 DEF PopAdvance, head, Pred
    <3> QED  BY <2>7, <3>2, ContentsUnchanged DEF PopAdvance, Fifo!vars
  <2>8. CASE PopSub
    BY <2>8, SubTakesHead DEF PopSub, Fifo!Next, Fifo!Pop
  <2>9. CASE UNCHANGED vars
    BY <2>9, ContentsUnchanged DEF vars, head, Pred, Fifo!vars
  <2> QED
    BY <2>1, <2>2, <2>3, <2>4, <2>5, <2>6, <2>7, <2>8, <2>9 DEF Next
<1> QED
  BY <1>1, <1>2, RingInvariant, PTL DEF Spec, RefinesFifo, Fifo!Spec
=============================================================================
