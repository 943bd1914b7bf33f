-------------------------- MODULE SafeRingBuffer --------------------------
(***************************************************************************)
(* SafeRingBuffer<T, SIZE> of async_runtime/src/utils.rs: the ring that    *)
(* two threads share through a NewBuffer without a lock.  One thread only  *)
(* pushes, the other only pops; each may be preempted between any two of   *)
(* its accesses to the buffer, so every access is an action of its own.    *)
(***************************************************************************)
EXTENDS RingIndex, Sequences

\* Size is SIZE: MAX_ITEM_NUM = 4096 for an ItemsQueue.
CONSTANTS Item,   \* the IPCItems pushed
          None    \* Option::None, and a slot that was never written

ASSUME NoneAssumption == None \notin Item

VARIABLES data, start, end, count,   \* the fields of the struct
          ppc, pitem, pushed,        \* the pusher: next access, argument, last result
          cpc, citem, popped         \* the popper: next access, local item, last result

vars == <<data, start, end, count, ppc, pitem, pushed, cpc, citem, popped>>

New == /\ data = [s \in Slots |-> None]
       /\ start = 0
       /\ end = 0
       /\ count = 0

Init == /\ New
        /\ ppc = "idle" /\ pitem = None /\ pushed = "none"
        /\ cpc = "idle" /\ citem = None /\ popped = None

-----------------------------------------------------------------------------
(* push_safe: test count, store the item, advance end, add one to count. *)

(* Mutant of PushTest: the bound is tested with one item too many. *)
PushTestOffByOne(item) ==
    /\ ppc = "idle"
    /\ count <= Size
    /\ ppc' = "write"
    /\ pitem' = item
    /\ UNCHANGED <<data, start, end, count, pushed, cpc, citem, popped>>

PushTest(item) ==
    /\ ppc = "idle"
    /\ \/ /\ count # Size
          /\ ppc' = "write"
          /\ pitem' = item
          /\ UNCHANGED pushed
       \/ /\ count = Size
          /\ pushed' = "err"
          /\ UNCHANGED <<ppc, pitem>>
    /\ UNCHANGED <<data, start, end, count, cpc, citem, popped>>

PushWrite ==
    /\ ppc = "write"
    /\ data' = [data EXCEPT ![end] = pitem]
    /\ ppc' = "advance"
    /\ UNCHANGED <<start, end, count, pitem, pushed, cpc, citem, popped>>

PushAdvance ==
    /\ ppc = "advance"
    /\ end' = Advance(end)
    /\ ppc' = "add"
    /\ UNCHANGED <<data, start, count, pitem, pushed, cpc, citem, popped>>

PushAdd ==
    /\ ppc = "add"
    /\ count' = count + 1
    /\ pushed' = "ok"
    /\ ppc' = "idle"
    /\ pitem' = None
    /\ UNCHANGED <<data, start, end, cpc, citem, popped>>

-----------------------------------------------------------------------------
(* pop_safe: test count, read the item, advance start, take one off count. *)

(* Mutant of PopTest: emptiness is decided by the indices, as the plain    *)
(* RingBuffer does, which a full ring satisfies too.                       *)
PopTestByIndex ==
    /\ cpc = "idle"
    /\ \/ /\ start # end
          /\ cpc' = "read"
          /\ UNCHANGED popped
       \/ /\ start = end
          /\ popped' = None
          /\ UNCHANGED cpc
    /\ UNCHANGED <<data, start, end, count, ppc, pitem, pushed, citem>>

(* Mutant of PopTest: the popper does not test count at all. *)
PopTestDropped ==
    /\ cpc = "idle"
    /\ cpc' = "read"
    /\ UNCHANGED <<data, start, end, count, ppc, pitem, pushed, citem, popped>>

PopTest ==
    /\ cpc = "idle"
    /\ \/ /\ count # 0
          /\ cpc' = "read"
          /\ UNCHANGED popped
       \/ /\ count = 0
          /\ popped' = None
          /\ UNCHANGED cpc
    /\ UNCHANGED <<data, start, end, count, ppc, pitem, pushed, citem>>

PopRead ==
    /\ cpc = "read"
    /\ citem' = data[start]
    /\ cpc' = "advance"
    /\ UNCHANGED <<data, start, end, count, ppc, pitem, pushed, popped>>

PopAdvance ==
    /\ cpc = "advance"
    /\ start' = Advance(start)
    /\ cpc' = "sub"
    /\ UNCHANGED <<data, end, count, ppc, pitem, pushed, citem, popped>>

PopSub ==
    /\ cpc = "sub"
    /\ count' = count - 1
    /\ popped' = citem
    /\ citem' = None
    /\ cpc' = "idle"
    /\ UNCHANGED <<data, start, end, ppc, pitem, pushed>>

-----------------------------------------------------------------------------

Next == \/ \E item \in Item : PushTest(item)
        \/ PushWrite
        \/ PushAdvance
        \/ PushAdd
        \/ PopTest
        \/ PopRead
        \/ PopAdvance
        \/ PopSub

Spec == Init /\ [][Next]_vars

-----------------------------------------------------------------------------
(* Properties. *)

(* The fields stay in range: both indices address a slot of data, count    *)
(* never passes SIZE and never wraps below zero.                           *)
TypeOK ==
    /\ data \in [Slots -> Item \cup {None}]
    /\ start \in Slots
    /\ end \in Slots
    /\ count \in 0 .. Size
    /\ ppc \in {"idle", "write", "advance", "add"}
    /\ pitem \in Item \cup {None}
    /\ pushed \in {"none", "ok", "err"}
    /\ cpc \in {"idle", "read", "advance", "sub"}
    /\ citem \in Item \cup {None}
    /\ popped \in Item \cup {None}

(* The plain accesses to data never race: when the pusher's next access    *)
(* stores to data[end] and the popper's next access reads data[start],     *)
(* those are different slots.                                              *)
NoSlotRace == ppc = "write" /\ cpc = "read" => end # start

(* The oldest item is at head until fetch_sub gives it up, although start  *)
(* has moved on before; the next item goes to tail until fetch_add         *)
(* publishes it, although end has moved on before.                         *)
head == IF cpc = "sub" THEN Pred(start) ELSE start
tail == IF ppc = "add" THEN Pred(end) ELSE end

(* The items the buffer holds, oldest first: push_safe takes effect at its *)
(* fetch_add, pop_safe at its fetch_sub, a refusal at its load of count.   *)
Contents == [k \in 1 .. count |-> data[Slot(head, k - 1)]]

Fifo == INSTANCE BoundedFifo WITH Capacity <- Size, queue <- Contents

(* Under every interleaving of one pusher and one popper the ring behaves  *)
(* as a FIFO queue of capacity SIZE: push_safe fails only when it is full, *)
(* pop_safe fails only when it is empty, and no item is lost, duplicated,  *)
(* reordered or torn.                                                      *)
RefinesFifo == Fifo!Spec

-----------------------------------------------------------------------------
(* The inductive invariant behind these properties. *)

IndexInv ==
    /\ tail = Slot(head, count)
    /\ ppc # "idle" => count < Size /\ pitem \in Item
    /\ cpc # "idle" => count > 0

DataInv ==
    /\ \A k \in 0 .. count - 1 : data[Slot(head, k)] \in Item
    /\ ppc \in {"advance", "add"} => data[tail] = pitem
    /\ cpc \in {"advance", "sub"} => data[head] = citem

(* Where the indices, the count and the half-done operations stand to one  *)
(* another: what every step of push_safe and pop_safe preserves.           *)
RingInv == TypeOK /\ IndexInv /\ DataInv
=============================================================================
