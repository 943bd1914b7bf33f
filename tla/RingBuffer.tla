---------------------------- MODULE RingBuffer ----------------------------
(***************************************************************************)
(* RingBuffer<T, SIZE> of async_runtime/src/utils.rs: the executor's ready *)
(* queue of one priority.  It belongs to one thread, so each method is one *)
(* step; there is no count, one slot always stays free to tell a full ring *)
(* from an empty one.                                                      *)
(***************************************************************************)
EXTENDS RingIndex, Sequences

\* Size is SIZE: MAX_TASK_NUM = 2048 for a ready queue.
CONSTANTS Item,   \* the values pushed
          None    \* Option::None, and a slot that was never written

ASSUME NoneAssumption == None \notin Item

VARIABLES data, start, end,   \* the fields of the struct
          pushed, popped      \* the results of the last push and pop

vars == <<data, start, end, pushed, popped>>

Init == /\ data = [s \in Slots |-> None]
        /\ start = 0
        /\ end = 0
        /\ pushed = "none"
        /\ popped = None

size == (end + Size - start) % Size

empty == end = start

(* Mutant of full: the slot that must stay free is used as well. *)
fullOneLate == end = start /\ data[end] # None

full == Advance(end) = start

Push(item) ==
    /\ \/ /\ ~full
          /\ data' = [data EXCEPT ![end] = item]
          /\ end' = Advance(end)
          /\ pushed' = "ok"
       \/ /\ full
          /\ pushed' = "err"
          /\ UNCHANGED <<data, end>>
    /\ UNCHANGED <<start, popped>>

(* Mutant of Pop: the index does not wrap. *)
PopNoWrap ==
    /\ ~empty
    /\ popped' = data[start]
    /\ start' = start + 1
    /\ UNCHANGED <<data, end, pushed>>

Pop ==
    /\ \/ /\ ~empty
          /\ popped' = data[start]
          /\ start' = Advance(start)
       \/ /\ empty
          /\ popped' = None
          /\ UNCHANGED start
    /\ UNCHANGED <<data, end, pushed>>

Next == (\E item \in Item : Push(item)) \/ Pop

Spec == Init /\ [][Next]_vars

-----------------------------------------------------------------------------

(* The number of slots from s up to e around the ring. *)
Dist(s, e) == IF s <= e THEN e - s ELSE e + Size - s

Count == Dist(start, end)

Contents == [k \in 1 .. Count |-> data[Slot(start, k - 1)]]

Fifo == INSTANCE BoundedFifo WITH Capacity <- Size - 1, queue <- Contents

(* The ready queue is a FIFO queue of capacity SIZE - 1: push fails only   *)
(* with SIZE - 1 coroutines queued, pop only with none.                    *)
RefinesFifo == Fifo!Spec

(* The indices stay in the array, the slots between them hold pushed       *)
(* items, and size() is the number of items held.                          *)
RingInv ==
    /\ data \in [Slots -> Item \cup {None}]
    /\ start \in Slots
    /\ end \in Slots
    /\ pushed \in {"none", "ok", "err"}
    /\ popped \in Item \cup {None}
    /\ \A k \in 0 .. Count - 1 : data[Slot(start, k)] \in Item
    /\ size = Count
=============================================================================
