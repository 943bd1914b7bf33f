-------------------------- MODULE MemoryAllocator --------------------------
(***************************************************************************)
(* AsyncMemoryAllocator of memory_allocator.rs: map_vaddr and unmap_vaddr  *)
(* called by several coroutines of one thread.  Each awaits one system     *)
(* call, so other coroutines run between the code before the await and the *)
(* code after it, and the kernel acts at some moment in between.  Calls    *)
(* that only print a message (an address outside the range, no free slot,  *)
(* an address that is not mapped) change nothing and are no steps.         *)
(***************************************************************************)
EXTENDS Integers, Sequences, FiniteSets

CONSTANTS MaxPageNum,   \* MAX_PAGE_NUM
          Addrs,        \* page addresses from START_ADDR to END_ADDR
          Tasks,        \* coroutines that use the allocator
          Exclusive     \* TRUE: one call per address at a time, as in single_test

NoAddr == 0             \* what mapped_vaddrs holds for an unmapped slot
NoSlot == -1

ASSUME AllocatorAssumption ==
    /\ MaxPageNum \in Nat \ {0}
    /\ NoAddr \notin Addrs
    /\ Exclusive \in BOOLEAN

Slots == 0 .. MaxPageNum - 1

VARIABLES
    current,        \* slots from here on were never used
    recycled,       \* slots given back
    mapped_vaddrs,  \* the allocator's idea of where each frame is mapped
    frame_at,       \* external: where the kernel has mapped each frame
    pc, vaddr, slot \* each coroutine: its place and its local variables

vars == <<current, recycled, mapped_vaddrs, frame_at, pc, vaddr, slot>>

Init ==
    /\ current = 0
    /\ recycled = <<>>
    /\ mapped_vaddrs = [s \in Slots |-> NoAddr]
    /\ frame_at = [s \in Slots |-> NoAddr]
    /\ pc = [t \in Tasks |-> "idle"]
    /\ vaddr = [t \in Tasks |-> NoAddr]
    /\ slot = [t \in Tasks |-> NoSlot]

(* The callers' side: single_test maps an address nobody else uses. *)
Unused(v) == \A t \in Tasks : vaddr[t] # v
Mapped(v) == \E s \in Slots : mapped_vaddrs[s] = v

Begin(t, v, s, label) ==
    /\ pc' = [pc EXCEPT ![t] = label]
    /\ vaddr' = [vaddr EXCEPT ![t] = v]
    /\ slot' = [slot EXCEPT ![t] = s]

End(t) == Begin(t, NoAddr, NoSlot, "idle")

(* Mutant of AllocSlot: current counts the recycled slots too. *)
AllocSlotCountsAll(s) ==
    /\ \/ /\ recycled # <<>>
          /\ s = recycled[Len(recycled)]
          /\ recycled' = SubSeq(recycled, 1, Len(recycled) - 1)
       \/ /\ recycled = <<>>
          /\ current < MaxPageNum
          /\ s = current
          /\ UNCHANGED recycled
    /\ current' = current + 1

(* alloc_slot: a recycled slot, the last one first, or a new one. *)
AllocSlot(s) ==
    \/ /\ recycled # <<>>
       /\ s = recycled[Len(recycled)]
       /\ recycled' = SubSeq(recycled, 1, Len(recycled) - 1)
       /\ UNCHANGED current
    \/ /\ recycled = <<>>
       /\ current < MaxPageNum
       /\ s = current
       /\ current' = current + 1
       /\ UNCHANGED recycled

(* map_vaddr up to the await. *)
MapStart(t, v) ==
    /\ pc[t] = "idle"
    /\ Exclusive => Unused(v) /\ ~Mapped(v)
    /\ \E s \in Slots : AllocSlot(s) /\ Begin(t, v, s, "map_sent")
    /\ UNCHANGED <<mapped_vaddrs, frame_at>>

(* External: the kernel maps the frame unless it is mapped already or the  *)
(* address is taken; the error is not looked at.                           *)
KernelMap(t) ==
    /\ pc[t] = "map_sent"
    /\ frame_at' =
          IF frame_at[slot[t]] = NoAddr /\ \A s \in Slots : frame_at[s] # vaddr[t]
          THEN [frame_at EXCEPT ![slot[t]] = vaddr[t]] ELSE frame_at
    /\ pc' = [pc EXCEPT ![t] = "map_done"]
    /\ UNCHANGED <<current, recycled, mapped_vaddrs, vaddr, slot>>

MapEnd(t) ==
    /\ pc[t] = "map_done"
    /\ mapped_vaddrs' = [mapped_vaddrs EXCEPT ![slot[t]] = vaddr[t]]
    /\ End(t)
    /\ UNCHANGED <<current, recycled, frame_at>>

(* unmap_vaddr up to the await: the first slot mapped at v. *)
UnmapStart(t, v) ==
    /\ pc[t] = "idle"
    /\ Exclusive => Unused(v)
    /\ \E s \in Slots :
          /\ mapped_vaddrs[s] = v
          /\ \A r \in 0 .. s - 1 : mapped_vaddrs[r] # v
          /\ Begin(t, v, s, "unmap_sent")
    /\ UNCHANGED <<current, recycled, mapped_vaddrs, frame_at>>

KernelUnmap(t) ==
    /\ pc[t] = "unmap_sent"
    /\ frame_at' = [frame_at EXCEPT ![slot[t]] = NoAddr]
    /\ pc' = [pc EXCEPT ![t] = "unmap_done"]
    /\ UNCHANGED <<current, recycled, mapped_vaddrs, vaddr, slot>>

(* Mutant of UnmapEnd: the address stays in mapped_vaddrs. *)
UnmapEndKeepsAddr(t) ==
    /\ pc[t] = "unmap_done"
    /\ recycled' = Append(recycled, slot[t])
    /\ End(t)
    /\ UNCHANGED <<current, mapped_vaddrs, frame_at>>

(* Mutant of UnmapEnd: the slot is not recycled. *)
UnmapEndLeaks(t) ==
    /\ pc[t] = "unmap_done"
    /\ mapped_vaddrs' = [mapped_vaddrs EXCEPT ![slot[t]] = NoAddr]
    /\ End(t)
    /\ UNCHANGED <<current, recycled, frame_at>>

UnmapEnd(t) ==
    /\ pc[t] = "unmap_done"
    /\ mapped_vaddrs' = [mapped_vaddrs EXCEPT ![slot[t]] = NoAddr]
    /\ recycled' = Append(recycled, slot[t])
    /\ End(t)
    /\ UNCHANGED <<current, frame_at>>

Next == \E t \in Tasks :
           \/ \E v \in Addrs : MapStart(t, v) \/ UnmapStart(t, v)
           \/ KernelMap(t) \/ MapEnd(t) \/ KernelUnmap(t) \/ UnmapEnd(t)

Spec == Init /\ [][Next]_vars

-----------------------------------------------------------------------------
(* Properties. *)

Mapping(t) == pc[t] \in {"map_sent", "map_done"}
Unmapping(t) == pc[t] \in {"unmap_sent", "unmap_done"}

(* The state has its type: an idle coroutine holds nothing, a busy one an  *)
(* address and a slot.                                                     *)
TypeOK ==
    /\ current \in 0 .. MaxPageNum
    /\ recycled \in Seq(Slots)
    /\ mapped_vaddrs \in [Slots -> Addrs \cup {NoAddr}]
    /\ frame_at \in [Slots -> Addrs \cup {NoAddr}]
    /\ pc \in [Tasks -> {"idle", "map_sent", "map_done", "unmap_sent", "unmap_done"}]
    /\ vaddr \in [Tasks -> Addrs \cup {NoAddr}]
    /\ slot \in [Tasks -> Slots \cup {NoSlot}]
    /\ \A t \in Tasks : pc[t] # "idle" => vaddr[t] \in Addrs /\ slot[t] \in Slots

(* No slot is handed out twice: it is recycled once, or in the hands of    *)
(* one map_vaddr, or mapped, and never two of these at a time.             *)
OneOwnerPerSlot ==
    /\ \A i, j \in 1 .. Len(recycled) : recycled[i] = recycled[j] => i = j
    /\ \A i \in 1 .. Len(recycled) :
          /\ mapped_vaddrs[recycled[i]] = NoAddr
          /\ \A t \in Tasks : Mapping(t) => slot[t] # recycled[i]
    /\ \A t \in Tasks : Mapping(t) => mapped_vaddrs[slot[t]] = NoAddr
    /\ \A t, u \in Tasks : Mapping(t) /\ Mapping(u) /\ slot[t] = slot[u] => t = u

(* No slot is lost: a slot that was used is recycled, mapped or in the     *)
(* hands of a map_vaddr.                                                   *)
NoSlotLeak ==
    \A s \in Slots : s < current =>
        \/ \E i \in 1 .. Len(recycled) : recycled[i] = s
        \/ mapped_vaddrs[s] # NoAddr
        \/ \E t \in Tasks : Mapping(t) /\ slot[t] = s

(* The allocator's table is what the kernel has mapped, except for the     *)
(* slot of a call that is still under way.                                 *)
TableMatchesKernel ==
    \A s \in Slots :
        (\A t \in Tasks : slot[t] # s) => frame_at[s] = mapped_vaddrs[s]
=============================================================================
