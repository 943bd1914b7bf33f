---------------------------- MODULE BoundedFifo ----------------------------
(***************************************************************************)
(* What a ring buffer of this repository promises to the code that uses    *)
(* it: a first-in first-out queue with a fixed capacity whose push fails   *)
(* exactly when the queue is full and whose pop fails exactly when it is   *)
(* empty.  pushed and popped are the results handed to the last callers.   *)
(***************************************************************************)
EXTENDS Naturals, Sequences

CONSTANTS Item,      \* what the buffer stores
          None,      \* the result of a pop that finds nothing
          Capacity   \* how many items it holds at most

VARIABLES queue, pushed, popped

vars == <<queue, pushed, popped>>

Init == /\ queue = <<>>
        /\ pushed = "none"
        /\ popped = None

Push(item) == /\ Len(queue) < Capacity
              /\ queue' = Append(queue, item)
              /\ pushed' = "ok"
              /\ UNCHANGED popped

PushFull == /\ Len(queue) = Capacity
            /\ pushed' = "err"
            /\ UNCHANGED <<queue, popped>>

Pop == /\ queue # <<>>
       /\ popped' = Head(queue)
       /\ queue' = Tail(queue)
       /\ UNCHANGED pushed

PopEmpty == /\ queue = <<>>
            /\ popped' = None
            /\ UNCHANGED <<queue, pushed>>

Next == \/ \E item \in Item : Push(item)
        \/ PushFull
        \/ Pop
        \/ PopEmpty

Spec == Init /\ [][Next]_vars
=============================================================================
