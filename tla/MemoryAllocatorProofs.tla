----------------------- MODULE MemoryAllocatorProofs -----------------------
(***************************************************************************)
(* Proofs about AsyncMemoryAllocator for any number of pages, addresses    *)
(* and coroutines, provided that no two calls for one address overlap.     *)
(***************************************************************************)
EXTENDS MemoryAllocator, SequenceTheorems, TLAPS

(* What the coroutines hold: nothing when idle; a slot below current while *)
(* mapping, a mapped one while unmapping; addresses they share with no     *)
(* other coroutine and, while mapping, with no mapped slot.                *)
CallInv ==
    /\ \A t \in Tasks : pc[t] = "idle" => vaddr[t] = NoAddr /\ slot[t] = NoSlot
    /\ \A t \in Tasks : Mapping(t) => slot[t] < current
    /\ \A t \in Tasks : Unmapping(t) => mapped_vaddrs[slot[t]] = vaddr[t]
    /\ \A t, u \in Tasks : pc[t] # "idle" /\ vaddr[t] = vaddr[u] => t = u
    /\ \A t \in Tasks : Mapping(t) => \A s \in Slots : mapped_vaddrs[s] # vaddr[t]

(* What the table says of slots outside current, and that it is injective. *)
TableInv ==
    /\ \A i \in 1 .. Len(recycled) : recycled[i] < current
    /\ \A s \in Slots : s >= current => mapped_vaddrs[s] = NoAddr
    /\ \A s, r \in Slots :
          mapped_vaddrs[s] # NoAddr /\ mapped_vaddrs[s] = mapped_vaddrs[r] => s = r

(* Where the kernel has the frame of a call under way. *)
KernelInv ==
    \A t \in Tasks :
        /\ pc[t] \in {"map_sent", "unmap_done"} => frame_at[slot[t]] = NoAddr
        /\ pc[t] \in {"map_done", "unmap_sent"} => frame_at[slot[t]] = vaddr[t]

AllocInv == TypeOK /\ CallInv /\ TableInv /\ OneOwnerPerSlot
KInv == KernelInv /\ TableMatchesKernel
IInv == AllocInv /\ NoSlotLeak /\ KInv

LEMMA InitInv == Init => IInv
  BY AllocatorAssumption
  DEF Init, IInv, AllocInv, KInv, TypeOK, CallInv, TableInv, OneOwnerPerSlot,
      NoSlotLeak, KernelInv, TableMatchesKernel, Mapping, Unmapping, Slots, NoSlot, NoAddr

(* What alloc_slot returns and leaves: a slot below the new current that    *)
(* was neither mapped nor in anybody's hands, and is no longer recycled.    *)
LEMMA AllocSlotFresh ==
  ASSUME AllocInv, NEW s \in Slots, AllocSlot(s)
  PROVE  /\ current' \in 0 .. MaxPageNum /\ current <= current' /\ s < current'
         /\ recycled' \in Seq(Slots)
         /\ Len(recycled') <= Len(recycled)
         /\ \A i \in 1 .. Len(recycled') :
               i \in 1 .. Len(recycled) /\ recycled'[i] = recycled[i] /\ recycled'[i] # s
         /\ mapped_vaddrs[s] = NoAddr
         /\ \A t \in Tasks : Mapping(t) => slot[t] # s
  <1>1. CASE /\ recycled # <<>>
             /\ s = recycled[Len(recycled)]
             /\ recycled' = SubSeq(recycled, 1, Len(recycled) - 1)
             /\ current' = current
    <2> DEFINE n == Len(recycled)
    <2>1. recycled \in Seq(Slots) /\ n \in Nat /\ n # 0
      BY <1>1, EmptySeq, LenProperties DEF AllocInv, TypeOK
    <2>2. /\ recycled' \in Seq(Slots)
          /\ Len(recycled') = n - 1
          /\ \A i \in 1 .. n - 1 : recycled'[i] = recycled[i]
      <3>1. \A i \in 1 .. n - 1 : recycled[i] \in Slots
        BY <2>1, ElementOfSeq
      <3>2. 1 \in Int /\ n - 1 \in Int
        BY <2>1
      <3> HIDE DEF n
      <3>3. /\ SubSeq(recycled, 1, n - 1) \in Seq(Slots)
            /\ Len(SubSeq(recycled, 1, n - 1)) =
                  IF 1 <= n - 1 THEN (n - 1) - 1 + 1 ELSE 0
            /\ \A i \in 1 .. (n - 1) - 1 + 1 :
                  SubSeq(recycled, 1, n - 1)[i] = recycled[1 + i - 1]
        BY <3>1, <3>2, SubSeqProperties, SMT
      <3>4. recycled' = SubSeq(recycled, 1, n - 1)
        BY <1>1 DEF n
      <3> QED
        BY <2>1, <3>3, <3>4
    <2>3. n \in 1 .. n
      BY <2>1
    <2>4. \A i \in 1 .. n - 1 : recycled[i] # s
      BY <1>1, <2>1, <2>3 DEF AllocInv, OneOwnerPerSlot
    <2>5. /\ mapped_vaddrs[s] = NoAddr
          /\ s < current
          /\ \A t \in Tasks : Mapping(t) => slot[t] # s
      BY <1>1, <2>3 DEF AllocInv, OneOwnerPerSlot, TableInv
    <2> QED
      BY <1>1, <2>1, <2>2, <2>4, <2>5 DEF AllocInv, TypeOK
  <1>2. CASE /\ current < MaxPageNum
             /\ s = current
             /\ current' = current + 1
             /\ recycled' = recycled
             /\ recycled = <<>>
    <2>1. Len(recycled) = 0
      BY <1>2
    <2> QED
      BY <1>2, <2>1, AllocatorAssumption
      DEF AllocInv, TypeOK, TableInv, CallInv, Slots
  <1> QED
    BY <1>1, <1>2 DEF AllocSlot

(* The allocator's part of the invariant is kept by every step. *)
LEMMA AllocStep ==
  ASSUME Exclusive, AllocInv, [Next]_vars
  PROVE  AllocInv'
  <1> USE AllocatorAssumption DEF Mapping, Unmapping
  <1>1. ASSUME NEW t \in Tasks, NEW v \in Addrs, MapStart(t, v)
        PROVE  AllocInv'
    <2>1. PICK s \in Slots : AllocSlot(s) /\ Begin(t, v, s, "map_sent")
      BY <1>1 DEF MapStart
    <2>2. /\ current' \in 0 .. MaxPageNum /\ current <= current' /\ s < current'
          /\ recycled' \in Seq(Slots)
          /\ \A i \in 1 .. Len(recycled') :
                i \in 1 .. Len(recycled) /\ recycled'[i] = recycled[i] /\ recycled'[i] # s
          /\ mapped_vaddrs[s] = NoAddr
          /\ \A u \in Tasks : Mapping(u) => slot[u] # s
      BY <2>1, AllocSlotFresh
    <2>3. /\ pc[t] = "idle" /\ Unused(v) /\ ~Mapped(v)
          /\ mapped_vaddrs' = mapped_vaddrs /\ frame_at' = frame_at
          /\ pc' = [pc EXCEPT ![t] = "map_sent"]
          /\ vaddr' = [vaddr EXCEPT ![t] = v]
          /\ slot' = [slot EXCEPT ![t] = s]
      BY <1>1, <2>1 DEF MapStart, Begin
    <2>4. TypeOK'
      BY <2>2, <2>3 DEF AllocInv, TypeOK
    <2>5. CallInv'
      BY <2>2, <2>3 DEF AllocInv, TypeOK, CallInv, Unused, Mapped, Slots
    <2>6. TableInv'
      BY <2>2, <2>3 DEF AllocInv, TypeOK, TableInv, Slots
    <2>7. OneOwnerPerSlot'
      BY <2>2, <2>3 DEF AllocInv, TypeOK, OneOwnerPerSlot
    <2> QED
      BY <2>4, <2>5, <2>6, <2>7 DEF AllocInv
  <1>2. ASSUME NEW t \in Tasks, NEW v \in Addrs, UnmapStart(t, v)
        PROVE  AllocInv'
    <2>1. PICK s \in Slots : /\ mapped_vaddrs[s] = v
                             /\ Begin(t, v, s, "unmap_sent")
      BY <1>2 DEF UnmapStart
    <2> QED
      BY <1>2, <2>1
      DEF UnmapStart, Begin, Unused, AllocInv, TypeOK, CallInv, TableInv, OneOwnerPerSlot
  <1>3. ASSUME NEW t \in Tasks, KernelMap(t)
        PROVE  AllocInv'
    BY <1>3
    DEF KernelMap, AllocInv, TypeOK, CallInv, TableInv, OneOwnerPerSlot
  <1>4. ASSUME NEW t \in Tasks, KernelUnmap(t)
        PROVE  AllocInv'
    BY <1>4
    DEF KernelUnmap, AllocInv, TypeOK, CallInv, TableInv, OneOwnerPerSlot
  <1>5. ASSUME NEW t \in Tasks, MapEnd(t)
        PROVE  AllocInv'
    <2>1. TypeOK'
      BY <1>5 DEF MapEnd, End, Begin, AllocInv, TypeOK
    <2>2. CallInv'
      BY <1>5 DEF MapEnd, End, Begin, AllocInv, TypeOK, CallInv, OneOwnerPerSlot
    <2>3. TableInv'
      BY <1>5 DEF MapEnd, End, Begin, AllocInv, TypeOK, CallInv, TableInv, Slots
    <2>4. OneOwnerPerSlot'
      BY <1>5 DEF MapEnd, End, Begin, AllocInv, TypeOK, OneOwnerPerSlot
    <2> QED
      BY <2>1, <2>2, <2>3, <2>4 DEF AllocInv
  <1>6. ASSUME NEW t \in Tasks, UnmapEnd(t)
        PROVE  AllocInv'
    <2>1. /\ slot[t] \in Slots /\ recycled \in Seq(Slots) /\ Len(recycled) \in Nat
          /\ recycled' = Append(recycled, slot[t])
          /\ mapped_vaddrs[slot[t]] # NoAddr
      BY <1>6, LenProperties DEF UnmapEnd, AllocInv, TypeOK, CallInv
    <2>2. /\ recycled' \in Seq(Slots)
          /\ Len(recycled') = Len(recycled) + 1
          /\ \A i \in 1 .. Len(recycled) : recycled'[i] = recycled[i]
          /\ recycled'[Len(recycled) + 1] = slot[t]
      BY <2>1, AppendProperties
    <2>3. \A i \in 1 .. Len(recycled) : recycled[i] # slot[t]
      BY <2>1 DEF AllocInv, OneOwnerPerSlot
    <2>4. \A i \in 1 .. Len(recycled') :
             \/ i \in 1 .. Len(recycled) /\ recycled'[i] = recycled[i]
             \/ i = Len(recycled) + 1 /\ recycled'[i] = slot[t]
      BY <2>1, <2>2
    <2>5. TypeOK'
      BY <1>6, <2>1, <2>2 DEF UnmapEnd, End, Begin, AllocInv, TypeOK
    <2>6. CallInv'
      BY <1>6, <2>1 DEF UnmapEnd, End, Begin, AllocInv, TypeOK, CallInv, TableInv
    <2>7. TableInv'
      <3>1. slot[t] < current
        BY <2>1 DEF AllocInv, TableInv, TypeOK, Slots
      <3> QED
        BY <1>6, <2>1, <2>4, <3>1 DEF UnmapEnd, End, Begin, AllocInv, TypeOK, TableInv
    <2>8. OneOwnerPerSlot'
      <3>1. \A u \in Tasks : Mapping(u) => slot[u] # slot[t]
        BY <2>1 DEF AllocInv, OneOwnerPerSlot
      <3> QED
        BY <1>6, <2>1, <2>3, <2>4, <3>1
        DEF UnmapEnd, End, Begin, AllocInv, TypeOK, OneOwnerPerSlot
    <2> QED
      BY <2>5, <2>6, <2>7, <2>8 DEF AllocInv
  <1>7. CASE UNCHANGED vars
    BY <1>7 DEF vars, AllocInv, TypeOK, CallInv, TableInv, OneOwnerPerSlot
  <1> QED
    BY <1>1, <1>2, <1>3, <1>4, <1>5, <1>6, <1>7 DEF Next

(* alloc_slot takes the one slot it returns out of recycled, or makes one. *)
LEMMA AllocSlotKeeps ==
  ASSUME AllocInv, NEW s \in Slots, AllocSlot(s), NEW r \in Slots, r # s,
         r < current \/ r < current'
  PROVE  /\ r < current
         /\ (\E i \in 1 .. Len(recycled) : recycled[i] = r)
               => \E i \in 1 .. Len(recycled') : recycled'[i] = r
  <1>1. CASE /\ recycled # <<>>
             /\ s = recycled[Len(recycled)]
             /\ recycled' = SubSeq(recycled, 1, Len(recycled) - 1)
             /\ current' = current
    <2> DEFINE n == Len(recycled)
    <2>1. recycled \in Seq(Slots) /\ n \in Nat
      BY <1>1, LenProperties DEF AllocInv, TypeOK
    <2>2. ASSUME NEW i \in 1 .. n, recycled[i] = r
          PROVE  i \in 1 .. Len(recycled') /\ recycled'[i] = r
      BY <1>1, <2>1, <2>2
    <2> QED
      BY <1>1, <2>2
  <1>2. CASE /\ s = current
             /\ current' = current + 1
             /\ recycled' = recycled
    BY <1>2 DEF AllocInv, TypeOK, Slots
  <1> QED
    BY <1>1, <1>2 DEF AllocSlot

LEMMA LeakStep ==
  ASSUME AllocInv, NoSlotLeak, [Next]_vars
  PROVE  NoSlotLeak'
  <1> USE AllocatorAssumption DEF Mapping
  <1>1. ASSUME NEW t \in Tasks, NEW v \in Addrs, MapStart(t, v)
        PROVE  NoSlotLeak'
    <2>1. PICK s \in Slots : AllocSlot(s) /\ Begin(t, v, s, "map_sent")
      BY <1>1 DEF MapStart
    <2>2. pc[t] = "idle" /\ mapped_vaddrs' = mapped_vaddrs
      BY <1>1 DEF MapStart
    <2>3. pc'[t] = "map_sent" /\ slot'[t] = s
      BY <2>1 DEF Begin, AllocInv, TypeOK
    <2>4. \A u \in Tasks : Mapping(u) => Mapping(u)' /\ slot'[u] = slot[u]
      BY <2>1, <2>2 DEF Begin, AllocInv, TypeOK
    <2> SUFFICES ASSUME NEW r \in Slots, r < current'
                 PROVE  \/ \E i \in 1 .. Len(recycled') : recycled'[i] = r
                        \/ mapped_vaddrs'[r] # NoAddr
                        \/ \E u \in Tasks : Mapping(u)' /\ slot'[u] = r
      BY DEF NoSlotLeak
    <2>5. CASE r = s
      BY <2>3, <2>5
    <2>6. CASE r # s
      <3>1. /\ r < current
            /\ (\E i \in 1 .. Len(recycled) : recycled[i] = r)
                  => \E i \in 1 .. Len(recycled') : recycled'[i] = r
        BY <2>1, <2>6, AllocSlotKeeps
      <3> QED
        BY <2>2, <2>4, <3>1 DEF NoSlotLeak
    <2> QED
      BY <2>5, <2>6
  <1>2. ASSUME NEW t \in Tasks, NEW v \in Addrs, UnmapStart(t, v)
        PROVE  NoSlotLeak'
    BY <1>2 DEF UnmapStart, Begin, NoSlotLeak, AllocInv, TypeOK
  <1>3. ASSUME NEW t \in Tasks, KernelMap(t)
        PROVE  NoSlotLeak'
    BY <1>3 DEF KernelMap, NoSlotLeak, AllocInv, TypeOK
  <1>4. ASSUME NEW t \in Tasks, KernelUnmap(t)
        PROVE  NoSlotLeak'
    BY <1>4 DEF KernelUnmap, NoSlotLeak, AllocInv, TypeOK
  <1>5. ASSUME NEW t \in Tasks, MapEnd(t)
        PROVE  NoSlotLeak'
    BY <1>5 DEF MapEnd, End, Begin, NoSlotLeak, AllocInv, TypeOK
  <1>6. ASSUME NEW t \in Tasks, UnmapEnd(t)
        PROVE  NoSlotLeak'
    <2>1. /\ slot[t] \in Slots /\ recycled \in Seq(Slots) /\ Len(recycled) \in Nat
          /\ recycled' = Append(recycled, slot[t])
      BY <1>6, LenProperties DEF UnmapEnd, AllocInv, TypeOK
    <2>2. /\ Len(recycled') = Len(recycled) + 1
          /\ \A i \in 1 .. Len(recycled) : recycled'[i] = recycled[i]
          /\ recycled'[Len(recycled) + 1] = slot[t]
      BY <2>1, AppendProperties
    <2>3. \A r : (r = slot[t] \/ \E i \in 1 .. Len(recycled) : recycled[i] = r)
                    => \E i \in 1 .. Len(recycled') : recycled'[i] = r
      BY <2>1, <2>2
    <2> QED
      BY <1>6, <2>3 DEF UnmapEnd, End, Begin, NoSlotLeak, AllocInv, TypeOK
  <1>7. CASE UNCHANGED vars
    BY <1>7 DEF vars, NoSlotLeak
  <1> QED
    BY <1>1, <1>2, <1>3, <1>4, <1>5, <1>6, <1>7 DEF Next

(* Two calls under way never work on the same slot. *)
LEMMA BusySlotsDiffer ==
  ASSUME AllocInv, NEW t \in Tasks, NEW u \in Tasks,
         pc[t] # "idle", pc[u] # "idle", slot[t] = slot[u]
  PROVE  t = u
  <1>1. Mapping(t) \/ Unmapping(t)
    BY DEF AllocInv, TypeOK, Mapping, Unmapping
  <1>2. Mapping(u) \/ Unmapping(u)
    BY DEF AllocInv, TypeOK, Mapping, Unmapping
  <1>3. vaddr[t] # NoAddr /\ vaddr[u] # NoAddr
    BY AllocatorAssumption DEF AllocInv, TypeOK
  <1> QED
    BY <1>1, <1>2, <1>3 DEF AllocInv, OneOwnerPerSlot, CallInv

LEMMA KernelStep ==
  ASSUME AllocInv, AllocInv', KInv, [Next]_vars
  PROVE  KInv'
  <1> USE AllocatorAssumption DEF NoSlot, Slots
  <1>0. \A t, u \in Tasks : pc[t] # "idle" /\ pc[u] # "idle" /\ slot[t] = slot[u] => t = u
    BY BusySlotsDiffer
  <1>1. ASSUME NEW t \in Tasks, NEW v \in Addrs, MapStart(t, v)
        PROVE  KInv'
    <2>1. PICK s \in Slots : AllocSlot(s) /\ Begin(t, v, s, "map_sent")
      BY <1>1 DEF MapStart
    <2>2. mapped_vaddrs[s] = NoAddr /\ \A u \in Tasks : Mapping(u) => slot[u] # s
      BY <2>1, AllocSlotFresh
    <2>3. ASSUME NEW u \in Tasks
          PROVE  slot[u] # s
      <3>1. CASE pc[u] = "idle"
        BY <3>1 DEF AllocInv, CallInv
      <3>2. CASE Mapping(u)
        BY <2>2, <3>2
      <3>3. CASE Unmapping(u)
        <4>1. mapped_vaddrs[slot[u]] = vaddr[u] /\ vaddr[u] \in Addrs
          BY <3>3 DEF AllocInv, TypeOK, CallInv, Unmapping
        <4> QED
          BY <2>2, <4>1
      <3> QED
        BY <3>1, <3>2, <3>3 DEF AllocInv, TypeOK, Mapping, Unmapping
    <2>4. frame_at[s] = NoAddr
      BY <2>2, <2>3 DEF KInv, TableMatchesKernel
    <2> QED
      BY <1>1, <2>1, <2>3, <2>4
      DEF MapStart, Begin, AllocInv, TypeOK, CallInv, KInv, KernelInv, TableMatchesKernel
  <1>2. ASSUME NEW t \in Tasks, NEW v \in Addrs, UnmapStart(t, v)
        PROVE  KInv'
    <2>1. PICK s \in Slots : mapped_vaddrs[s] = v /\ Begin(t, v, s, "unmap_sent")
      BY <1>2 DEF UnmapStart
    <2>2. pc[t] = "idle" /\ slot[t] = NoSlot
      BY <1>2 DEF UnmapStart, AllocInv, CallInv
    <2>3. \A u \in Tasks : u # t => slot[u] # s
      <3> SUFFICES ASSUME NEW u \in Tasks, u # t, slot[u] = s
                   PROVE  FALSE
        OBVIOUS
      <3>1. pc[u] # "idle" /\ pc'[u] # "idle" /\ pc'[t] # "idle"
        BY <1>2, <2>1 DEF UnmapStart, Begin, AllocInv, TypeOK, CallInv
      <3>2. slot'[u] = s /\ slot'[t] = s
        BY <2>1 DEF Begin, AllocInv, TypeOK
      <3>3. mapped_vaddrs[s] # NoAddr
        BY <2>1
      <3>4. Unmapping(u)
        BY <3>1, <3>3 DEF AllocInv, TypeOK, OneOwnerPerSlot, Mapping, Unmapping
      <3>5. Unmapping(u)' /\ Unmapping(t)'
        BY <1>2, <2>1, <3>4 DEF UnmapStart, Begin, AllocInv, TypeOK, Unmapping
      <3>6. vaddr'[u] = vaddr'[t]
        BY <3>2, <3>5 DEF AllocInv, CallInv
      <3> QED
        BY <3>1, <3>6 DEF AllocInv, CallInv
    <2>4. frame_at[s] = v
      BY <2>1, <2>2, <2>3 DEF KInv, TableMatchesKernel
    <2> QED
      BY <1>2, <2>1, <2>2, <2>3, <2>4
      DEF UnmapStart, Begin, AllocInv, TypeOK, KInv, KernelInv, TableMatchesKernel
  <1>3. ASSUME NEW t \in Tasks, KernelMap(t)
        PROVE  KInv'
    <2>1. slot[t] \in Slots /\ frame_at[slot[t]] = NoAddr /\ Mapping(t)
      BY <1>3 DEF KernelMap, AllocInv, TypeOK, KInv, KernelInv, Mapping
    <2>2. ASSUME NEW s \in Slots
          PROVE  frame_at[s] # vaddr[t]
      <3>1. CASE \A u \in Tasks : slot[u] # s
        BY <2>1, <3>1 DEF KInv, TableMatchesKernel, AllocInv, CallInv
      <3>2. CASE \E u \in Tasks : slot[u] = s
        <4>1. PICK u \in Tasks : slot[u] = s
          BY <3>2
        <4>2. pc[u] # "idle"
          BY <4>1 DEF AllocInv, CallInv
        <4>3. frame_at[s] = NoAddr \/ frame_at[s] = vaddr[u]
          BY <4>1, <4>2 DEF AllocInv, TypeOK, KInv, KernelInv
        <4>4. vaddr[t] # NoAddr
          BY <1>3 DEF KernelMap, AllocInv, TypeOK
        <4>5. CASE u = t
          BY <2>1, <4>1, <4>4, <4>5
        <4>6. CASE u # t
          BY <4>2, <4>3, <4>4, <4>6 DEF AllocInv, CallInv
        <4> QED
          BY <4>5, <4>6
      <3> QED
        BY <3>1, <3>2
    <2>3. frame_at' = [frame_at EXCEPT ![slot[t]] = vaddr[t]]
      BY <1>3, <2>1, <2>2 DEF KernelMap
    <2> QED
      BY <1>0, <1>3, <2>1, <2>3
      DEF KernelMap, AllocInv, TypeOK, KInv, KernelInv, TableMatchesKernel
  <1>4. ASSUME NEW t \in Tasks, KernelUnmap(t)
        PROVE  KInv'
    BY <1>0, <1>4
    DEF KernelUnmap, AllocInv, TypeOK, KInv, KernelInv, TableMatchesKernel
  <1>5. ASSUME NEW t \in Tasks, MapEnd(t)
        PROVE  KInv'
    BY <1>0, <1>5
    DEF MapEnd, End, Begin, AllocInv, TypeOK, CallInv, KInv, KernelInv, TableMatchesKernel
  <1>6. ASSUME NEW t \in Tasks, UnmapEnd(t)
        PROVE  KInv'
    BY <1>0, <1>6
    DEF UnmapEnd, End, Begin, AllocInv, TypeOK, CallInv, KInv, KernelInv, TableMatchesKernel
  <1>7. CASE UNCHANGED vars
    BY <1>7 DEF vars, KInv, KernelInv, TableMatchesKernel
  <1> QED
    BY <1>1, <1>2, <1>3, <1>4, <1>5, <1>6, <1>7 DEF Next

(* With one call per address at a time, the inductive invariant holds of   *)
(* every state of AsyncMemoryAllocator.                                    *)
LEMMA Invariant ==
  ASSUME Exclusive
  PROVE  Spec => []IInv
  <1>1. IInv /\ [Next]_vars => IInv'
    BY AllocStep, LeakStep, KernelStep DEF IInv
  <1> QED
    BY <1>1, InitInv, PTL DEF Spec

(* Every field of AsyncMemoryAllocator and of the calls under way keeps    *)
(* its type: what alloc_slot returns is a page or none, what mapped_vaddrs *)
(* holds is an address or none, across every await.                        *)
THEOREM TypeCorrectness ==
  ASSUME Exclusive
  PROVE  Spec => []TypeOK
  BY Invariant, PTL DEF IInv, AllocInv

(* alloc_slot never hands out a slot twice: every slot is recycled, held   *)
(* by one map_vaddr, or mapped, and only one of these, across the awaits.  *)
THEOREM SlotOwnership ==
  ASSUME Exclusive
  PROVE  Spec => []OneOwnerPerSlot
  BY Invariant, PTL DEF IInv, AllocInv

(* unmap_vaddr gives back every slot: none is lost.                        *)
THEOREM SlotConservation ==
  ASSUME Exclusive
  PROVE  Spec => []NoSlotLeak
  BY Invariant, PTL DEF IInv

(* mapped_vaddrs agrees with the kernel's mappings for every slot without  *)
(* a call under way, although the results of the system calls are ignored. *)
THEOREM TableAgreement ==
  ASSUME Exclusive
  PROVE  Spec => []TableMatchesKernel
  BY Invariant, PTL DEF IInv, KInv
=============================================================================
