--------------------------- MODULE MCAsyncSyscall ---------------------------
(* The instance of AsyncSyscall for TLC. *)
EXTENDS AsyncSyscall

MCObjBits == [ntfn |-> 1, ep |-> 0, tcb |-> 1, page |-> 2, pt |-> 2]

Ram(bits) == [bits |-> bits, device |-> FALSE]
Dev(bits) == [bits |-> bits, device |-> TRUE]

MCUntypedLists ==
    {<<Ram(0), Ram(1), Ram(1), Ram(2), Ram(2), Ram(2), Ram(2), Ram(3)>>,
     <<Ram(3), Ram(3), Ram(2), Ram(2), Ram(2), Ram(1), Ram(1), Ram(0)>>,
     <<Dev(4), Ram(2), Ram(2), Ram(2), Dev(2), Ram(2), Ram(2), Ram(2), Ram(2)>>,
     <<Ram(1), Ram(2), Ram(2)>>}
=============================================================================
