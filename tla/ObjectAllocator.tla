-------------------------- MODULE ObjectAllocator --------------------------
(***************************************************************************)
(* GLOBAL_OBJ_ALLOCATOR of object_allocator.rs and the start-up code that  *)
(* allocates kernel objects with it.  An allocator is the record oa, each  *)
(* method an operator on it.  The allocator's own state is the untyped     *)
(* list with its used marks and the range of empty slots; the rest of the  *)
(* record is the kernel's side, external: what every capability slot holds *)
(* and whether an invocation was refused.                                  *)
(*                                                                         *)
(* Slot i holds the i-th untyped of the boot info, the slots after the     *)
(* list are the empty ones.                                                *)
(***************************************************************************)
EXTENDS Integers, Sequences, FiniteSets, FiniteSetsExt

CONSTANTS NumSlots,   \* slots of the root CNode
          ObjBits,    \* physical_size_bits of each kind of object
          MaxBits     \* the largest size that is asked for

Kinds == {"ntfn", "ep", "tcb", "page", "pt"}

ASSUME AllocatorAssumption ==
    /\ NumSlots \in Nat \ {0}
    /\ ObjBits \in [Kinds -> Nat]
    /\ MaxBits \in Nat

Slots == 1 .. NumSlots
NoSlot == 0

\* bits: the size of an untyped; st: its use (1: retyped), the slot a tcb
\* or a notification is tied to, the page a frame or table is mapped at.
Object(kind, bits) == [kind |-> kind, bits |-> bits, st |-> 0]
Empty == Object("empty", 0)

(* init: the untyped list and the empty slots as the boot info has them. *)
Boot(list) ==
    [list |-> list, used |-> {}, next |-> Len(list) + 1,
     objs |-> [s \in Slots |-> IF s <= Len(list) THEN Object("untyped", list[s].bits)
                                                 ELSE Empty],
     asked |-> [b \in 0 .. MaxBits |-> 0],   \* sizes asked for so far
     refused |-> FALSE,
     panic |-> "no"]

-----------------------------------------------------------------------------
(* External: the invocations of the kernel. *)

Refuse(oa) == [oa EXCEPT !.refused = TRUE]

Is(oa, s, kind) == s \in Slots /\ oa.objs[s].kind = kind

(* Untyped_Retype: 2^n objects into the slots from s; they must be empty,  *)
(* the untyped fresh and large enough.                                     *)
Retype(oa, u, kind, s, n) ==
    LET dst == s .. s + 2 ^ n - 1
    IN  IF /\ Is(oa, u, "untyped")
           /\ oa.objs[u].st = 0
           /\ oa.objs[u].bits >= ObjBits[kind] + n
           /\ \A d \in dst : Is(oa, d, "empty")
        THEN [oa EXCEPT !.objs = [d \in Slots |-> IF d = u THEN [@[u] EXCEPT !.st = 1]
                                                  ELSE IF d \in dst THEN Object(kind, 0)
                                                  ELSE @[d]]]
        ELSE Refuse(oa)

(* Mint of a badged copy of a notification. *)
Mint(oa, dst, src) ==
    IF Is(oa, src, "ntfn") /\ Is(oa, dst, "empty")
    THEN [oa EXCEPT !.objs[dst] = Object("badged", 0)] ELSE Refuse(oa)

BoundTo(oa, tcb) == {s \in Slots : Is(oa, s, "ntfn") /\ oa.objs[s].st = tcb}

Bind(oa, tcb, ntfn) ==
    IF Is(oa, tcb, "tcb") /\ Is(oa, ntfn, "ntfn") /\ oa.objs[ntfn].st = 0
         /\ BoundTo(oa, tcb) = {}
    THEN [oa EXCEPT !.objs[ntfn].st = tcb] ELSE Refuse(oa)

Unbind(oa, tcb) ==
    IF Is(oa, tcb, "tcb") /\ BoundTo(oa, tcb) # {}
    THEN [oa EXCEPT !.objs = [s \in Slots |-> IF s \in BoundTo(oa, tcb)
                                              THEN [@[s] EXCEPT !.st = 0] ELSE @[s]]]
    ELSE Refuse(oa)

(* What is mapped at page v: frames and tables are numbered apart. *)
MappedAt(oa, kind, v) == {s \in Slots : Is(oa, s, kind) /\ oa.objs[s].st = v}

TableMap(oa, pt) ==
    IF Is(oa, pt, "pt") /\ MappedAt(oa, "pt", 1) = {}
    THEN [oa EXCEPT !.objs[pt].st = 1] ELSE Refuse(oa)

(* A frame may be mapped again where it is, nowhere else. *)
PageMap(oa, frame, v) ==
    IF /\ Is(oa, frame, "page") /\ oa.objs[frame].st \in {0, v}
       /\ MappedAt(oa, "pt", 1) # {}
       /\ MappedAt(oa, "page", v) \subseteq {frame}
    THEN [oa EXCEPT !.objs[frame].st = v] ELSE Refuse(oa)

PageUnmap(oa, frame) ==
    IF Is(oa, frame, "page") THEN [oa EXCEPT !.objs[frame].st = 0] ELSE Refuse(oa)

-----------------------------------------------------------------------------
(* The allocator. *)

Fitting(oa, bits) ==
    {i \in DOMAIN oa.list : /\ ~oa.list[i].device
                            /\ oa.list[i].bits >= bits
                            /\ i \notin oa.used}

FirstFit(oa, bits) == IF Fitting(oa, bits) = {} THEN NoSlot ELSE Min(Fitting(oa, bits))

(* Mutant of get_the_first_untyped_slot: the untyped is not marked used. *)
get_the_first_untyped_slotUnmarked(oa, bits) ==
    [oa EXCEPT !.asked[bits] = @ + 1,
               !.panic = IF Fitting(oa, bits) = {} THEN "untyped" ELSE @]

(* Mutant of get_the_first_untyped_slot: the last that fits is taken. *)
get_the_first_untyped_slotLast(oa, bits) ==
    [oa EXCEPT !.asked[bits] = @ + 1,
               !.used = IF Fitting(oa, bits) = {} THEN @ ELSE @ \cup {Max(Fitting(oa, bits))},
               !.panic = IF Fitting(oa, bits) = {} THEN "untyped" ELSE @]

(* The untyped returned is FirstFit of the allocator before the call. *)
get_the_first_untyped_slot(oa, bits) ==
    [oa EXCEPT !.asked[bits] = @ + 1,
               !.used = @ \cup (IF Fitting(oa, bits) = {} THEN {}
                                ELSE {FirstFit(oa, bits)}),
               !.panic = IF Fitting(oa, bits) = {} THEN "untyped" ELSE @]

(* n slots in a row; the first of them is oa.next before the call. *)
get_empty_slots(oa, n) ==
    IF oa.next + n - 1 <= NumSlots THEN [oa EXCEPT !.next = @ + n]
                                   ELSE [oa EXCEPT !.panic = "slot"]

get_empty_slot(oa) == get_empty_slots(oa, 1)

(* One thing after another: a panic ends the sequence. *)
Then(first, second(_)) ==
    CHOOSE r \in {IF o.panic = "no" THEN second(o) ELSE o : o \in {first}} : TRUE

(* An untyped and slots for 2^n objects of a kind, not yet retyped. *)
Take(oa, kind, n) ==
    Then(get_the_first_untyped_slot(oa, ObjBits[kind] + n),
         LAMBDA o : get_empty_slots(o, 2 ^ n))

(* An invocation whose result is unwrapped, or returned with ? to a caller *)
(* that unwraps it: a refusal ends the task.                               *)
Unwrap(oa, invoke(_)) ==
    CHOOSE r \in {[o EXCEPT !.refused = @ \/ oa.refused,
                            !.panic = IF o.refused THEN "refused" ELSE @] :
                      o \in {invoke([oa EXCEPT !.refused = FALSE])}} : TRUE

(* The common shape of the alloc functions: 2^n objects of a kind, in the  *)
(* slots from oa.next of before the call.                                  *)
Alloc(oa, kind, n) ==
    Then(Take(oa, kind, n), LAMBDA o :
         Unwrap(o, LAMBDA p : Retype(p, FirstFit(oa, ObjBits[kind] + n), kind, oa.next, n)))

alloc_ntfn(oa) == Alloc(oa, "ntfn", 0)
alloc_ep(oa) == Alloc(oa, "ep", 0)
alloc_many_ep(oa, n) == Alloc(oa, "ep", n)
alloc_frame(oa) == Alloc(oa, "page", 0)
alloc_many_frame(oa, n) == Alloc(oa, "page", n)
alloc_tcb(oa) == Alloc(oa, "tcb", 0)
alloc_many_tcb(oa, n) == Alloc(oa, "tcb", n)
alloc_page_table(oa) == Alloc(oa, "pt", 0)

(* tcb_configure for 2^n threads: thread i and its endpoint. *)
ConfigureAll(oa, n, tcb(_), ep(_)) ==
    IF \A i \in 0 .. 2 ^ n - 1 : Is(oa, tcb(i), "tcb") /\ Is(oa, ep(i), "ep")
    THEN [oa EXCEPT !.objs = [s \in Slots |->
            IF \E i \in 0 .. 2 ^ n - 1 : tcb(i) = s
            THEN [@[s] EXCEPT !.st = ep(CHOOSE i \in 0 .. 2 ^ n - 1 : tcb(i) = s)]
            ELSE @[s]]]
    ELSE Refuse(oa)

(* create_many_threads and create_thread: endpoints and tcbs, each thread  *)
(* configured with its own fault endpoint.  Left out: the heap buffers,    *)
(* stacks and registers, and tcb_set_sched_params, tcb_set_affinity and    *)
(* tcb_resume, which change nothing of the slots and untypeds.             *)
create_many_threads(oa, n) ==
    Then(alloc_many_ep(oa, n), LAMBDA o :
    Then(alloc_many_tcb(o, n), LAMBDA p :
         Unwrap(p, LAMBDA q :
            ConfigureAll(q, n, LAMBDA i : o.next + i, LAMBDA i : oa.next + i))))

create_thread(oa) ==
    Then(alloc_tcb(oa), LAMBDA o :
    Then(alloc_ep(o), LAMBDA p :
         Unwrap(p, LAMBDA q : ConfigureAll(q, 0, LAMBDA i : oa.next, LAMBDA i : o.next))))

-----------------------------------------------------------------------------
(* Start-up code of the tests that allocates. *)

(* init_net_interrupt_handler: a slot for the IRQ handler capability, and  *)
(* a notification.                                                         *)
init_net_interrupt_handler(oa) ==
    Then(get_empty_slot(oa), LAMBDA o :
    Then(Unwrap(o, LAMBDA p : IF Is(p, oa.next, "empty")
                              THEN [p EXCEPT !.objs[oa.next] = Object("irq", 0)]
                              ELSE Refuse(p)), alloc_ntfn))

(* A notification and a badged copy of it: how every receiver is set up. *)
BadgedNtfn(oa) ==
    Then(alloc_ntfn(oa), LAMBDA o :
    Then(get_empty_slot(o), LAMBDA p : Unwrap(p, LAMBDA q : Mint(q, o.next, oa.next))))

(* init_mmio of both drivers: the device untyped is split into n untypeds, *)
(* these are made megapages one by one until number hit is the device's,   *)
(* or all of them if none is (hit = n).  The slot of a megapage is         *)
(* reserved one round before it is used.                                   *)
Megapages(oa, n, hit) ==
    LET first == oa.next + n
        made == Min({hit + 1, n})
        dst == oa.next .. first + made - 1
        full == [s \in Slots |-> IF s \in oa.next .. first - 1 THEN Object("device", 0)
                                 ELSE IF s \in dst THEN Object("mega", 0) ELSE oa.objs[s]]
    IN  Then(get_empty_slots(oa, n + 1 + made), LAMBDA o :
             Unwrap(o, LAMBDA p : IF \A s \in dst : Is(p, s, "empty")
                                  THEN [p EXCEPT !.objs = full] ELSE Refuse(p)))

(* The megapage, if there is one, is mapped outside the region of the      *)
(* tests (2); in axi_net it gets a table of its own, in virtio_net the     *)
(* boot tables are there.                                                  *)
init_mmio(oa, n, hit) ==
    Then(Megapages(oa, n, hit), LAMBDA o :
         IF hit = n THEN o
         ELSE Then(alloc_page_table(o), LAMBDA p :
                   [p EXCEPT !.objs[o.next].st = 2, !.objs[oa.next + n + hit].st = 2]))

virtio_init_mmio(oa, n, hit) ==
    Then(Megapages(oa, n, hit), LAMBDA o :
         IF hit = n THEN o ELSE [o EXCEPT !.objs[oa.next + n + hit].st = 2])
=============================================================================
