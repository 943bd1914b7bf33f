--------------------------- MODULE AsyncSyscall ---------------------------
(***************************************************************************)
(* Asynchronous system calls: async_syscall_test of syscall_test.rs with   *)
(* the wrappers of async_lib.rs.  A worker coroutine writes a request item *)
(* to the buffer registered as sender 63, wakes the kernel's handler if it *)
(* sleeps, and waits; recv_reply_coroutine_async_syscall hands out the     *)
(* replies.  The wrappers drop the result of a call, so a call the kernel  *)
(* refuses is not noticed: what it names must be right.                    *)
(*                                                                         *)
(* A run chooses one section of the test, after some of the start-up calls *)
(* other tests make: "memory" is the one the test calls as it stands, the  *)
(* others are its commented lines, each with the REPLY_NUM it has in the   *)
(* source.  The kernel is external: it takes requests in order and replies *)
(* while the thread runs on.  A worker's poll is one step; the reply       *)
(* coroutine takes one step per reply, one that finds no reply and one     *)
(* that clears its flag, and the kernel may reply between the two.         *)
(***************************************************************************)
EXTENDS Executor, ObjectAllocator, SequencesExt

CONSTANTS UntypedLists,   \* untyped lists of the boot info to consider
          MaxSetup,       \* start-up calls made before the test
          Sections,       \* the sections to consider
          PageNumBits,    \* MAX_PAGE_NUM_BITS
          Epoch,          \* EPOCH
          Lengths,        \* lengths of the string that is printed
          Chunk,          \* characters an item holds, 7
          PartBits,       \* bits of extend_msg[i], 16
          Addresses,      \* physical addresses the buffer may have
          ArgRange,       \* values a capability has as extend_msg[i], 2^16
          RingSize        \* MAX_ITEM_NUM

PageNum == 2 ^ PageNumBits

ASSUME SyscallAssumption ==
    /\ MaxSetup \in Nat /\ Epoch \in Nat \ {0} /\ Chunk \in Nat \ {0}
    /\ PageNumBits \in Nat \ {0} /\ PageNum < MaxTask
    /\ PartBits \in Nat \ {0}
    /\ Lengths \subseteq Nat /\ Addresses \subseteq 0 .. 2 ^ (4 * PartBits) - 1
    /\ Sections \subseteq {"output", "ntfn", "page", "unmap", "prepare", "memory", "address"}
    /\ MaxPrio > 2

Receiver == 0      \* the reply coroutine, spawned first
Workers == 1 .. PageNum

VARIABLES
    section,             \* the section that runs, fixed
    length,              \* of the string printed, fixed
    paddr,               \* of the buffer, fixed
    pc,                  \* "setup", "spawn", "fetch", "reply", "clear", "pass", "fault"
    setup,               \* start-up calls so far
    oa,                  \* GLOBAL_OBJ_ALLOCATOR and the kernel's objects
    ex,                  \* the executor
    co,                  \* per worker: calls made, and its local variables
    req_items, res_items, recv_req_status, recv_reply_status,
    immediate,           \* workers with an IMMEDIATE_VALUE
    reply_count,         \* REPLY_COUNT
    done,                \* calls of each worker the kernel has executed
    out,                 \* the console
    printed              \* the addresses the reply coroutine has printed

fixed == <<section, length, paddr>>
buffer == <<req_items, res_items, recv_req_status, recv_reply_status>>
kernel == <<done, out>>
vars == <<fixed, pc, setup, oa, ex, co, buffer, immediate, reply_count, kernel, printed>>

Init ==
    /\ section \in Sections
    /\ length \in (IF section = "output" THEN Lengths ELSE {0})
    /\ paddr \in (IF section \in {"output", "address"} THEN Addresses ELSE {0})
    /\ pc = "setup" /\ setup = 0
    /\ \E list \in UntypedLists : oa = Boot(list)
    /\ ex = New
    /\ co = [c \in Workers |-> [k |-> 0, tcb |-> NoSlot, untyped |-> NoSlot, slot |-> NoSlot]]
    /\ req_items = <<>> /\ res_items = <<>>
    /\ recv_req_status = FALSE /\ recv_reply_status = FALSE
    /\ immediate = {} /\ reply_count = 0
    /\ done = [c \in Workers |-> 0] /\ out = <<>> /\ printed = {}

Panicked == oa.panic # "no" \/ ex.panic
At(label) == pc = label /\ ~Panicked

-----------------------------------------------------------------------------
(* Start-up. *)

SetupCall(o) ==
    {alloc_ntfn(o), alloc_ep(o), alloc_frame(o), create_thread(o), BadgedNtfn(o),
     init_net_interrupt_handler(o), alloc_many_ep(o, 1), create_many_threads(o, 1)}
      \cup (IF \E i \in DOMAIN o.list : o.list[i].device
            THEN UNION {{init_mmio(o, 2, hit), virtio_init_mmio(o, 2, hit)} : hit \in 0 .. 2}
            ELSE {})

Setup ==
    /\ At("setup")
    /\ setup < MaxSetup
    /\ setup' = setup + 1
    /\ oa' \in SetupCall(oa)
    /\ UNCHANGED <<fixed, pc, ex, co, buffer, immediate, reply_count, kernel, printed>>

(* async_syscall_test: the notification, the reply coroutine, the buffer. *)
Register ==
    /\ At("setup")
    /\ pc' = "spawn"
    /\ oa' = BadgedNtfn(oa)
    /\ ex' = Spawn(ex, 1)
    /\ UNCHANGED <<fixed, setup, co, buffer, immediate, reply_count, kernel, printed>>

(* performance_test_init: FRAMES from two allocations, and a page table. *)
performance_test_init(o) ==
    Then(alloc_many_frame(o, PageNumBits - 1), LAMBDA o1 :
    Then(alloc_many_frame(o1, PageNumBits - 1), LAMBDA o2 :
    Then(alloc_page_table(o2), LAMBDA o3 : TableMap(o3, o2.next))))

FRAMES == [i \in Workers |-> IF i <= PageNum \div 2 THEN oa.next + i - 1
                             ELSE oa.next + 2 ^ (PageNumBits - 1) + i - 1 - PageNum \div 2]

(* sync_memory_test: every frame is mapped at its page and unmapped again, *)
(* Epoch times over.                                                       *)
sync_memory_test(o) ==
    FoldSet(LAMBDA c, p : PageUnmap(PageMap(p, FRAMES[c], c), FRAMES[c]), o, Workers)

SpawnSection ==
    /\ At("spawn")
    /\ pc' = "fetch"
    /\ CASE section = "memory" ->
              /\ oa' = Then(performance_test_init(oa), sync_memory_test)
              /\ co' = [c \in Workers |-> [co[c] EXCEPT !.slot = FRAMES[c]]]
              /\ ex' = SpawnMany(ex, PageNum, 0)
         [] section = "address" -> ex' = SpawnMany(ex, PageNum, 2) /\ UNCHANGED <<oa, co>>
         [] OTHER -> ex' = Spawn(ex, 1) /\ UNCHANGED <<oa, co>>
    /\ UNCHANGED <<fixed, setup, buffer, immediate, reply_count, kernel, printed>>

-----------------------------------------------------------------------------
(* The calls of a worker, the k-th being the next. *)

As16(x) == x % ArgRange

Rounds == length \div Chunk + 1      \* calls of seL4_Putstring

Calls == CASE section = "output" -> 2 + Rounds
           [] section = "ntfn" -> 3
           [] section = "page" -> 4
           [] section = "unmap" -> 1
           [] section = "prepare" -> PageNum + 2
           [] OTHER -> 2 * Epoch

(* The constants of the sections, as they are in the source.  REPLY_NUM is *)
(* TEST_REPLY_NUM where a section has none of its own.                     *)
REPLY_NUM == CASE section = "output" -> 3
               [] section = "ntfn" -> 3
               [] section = "page" -> 4
               [] section = "unmap" -> 1
               [] OTHER -> 2 * PageNum * Epoch

(* An untyped and a slot for an asynchronous retype. *)
ForRetype(o, l, kind) ==
    [oa |-> Take(o, kind, 0),
     l |-> [l EXCEPT !.untyped = FirstFit(o, ObjBits[kind]), !.slot = o.next]]

(* test_async_notification_section before its first call. *)
NtfnPrepare(l) ==
    [oa |-> Then(create_thread(oa), LAMBDA o : Take(o, "ntfn", 0)),
     l |-> [l EXCEPT !.tcb = oa.next, !.slot = oa.next + 2,
                     !.untyped = FirstFit(create_thread(oa), ObjBits["ntfn"])]]

(* test_async_riscv_page_unmap before its call: a table and a frame,       *)
(* allocated and mapped synchronously.                                     *)
UnmapPrepare(l) ==
    [oa |-> Then(alloc_page_table(oa), LAMBDA o1 :
            Then(alloc_frame(TableMap(o1, oa.next)), LAMBDA o2 :
                 PageMap(o2, o1.next, 1))),
     l |-> [l EXCEPT !.slot = oa.next + 1]]

(* What a worker allocates before its call. *)
Prepare(l) ==
    CASE section = "ntfn" /\ l.k = 0 -> NtfnPrepare(l)
      [] section = "unmap" -> UnmapPrepare(l)
      [] section = "page" /\ l.k = 0 -> ForRetype(oa, l, "pt")
      [] section = "page" /\ l.k = 2 -> ForRetype(oa, l, "page")
      [] section = "prepare" /\ l.k < PageNum -> ForRetype(oa, l, "page")
      [] section = "prepare" /\ l.k = PageNum -> ForRetype(oa, l, "pt")
      [] OTHER -> [oa |-> oa, l |-> l]

Item(c, label, args) == [cid |-> c, label |-> label, args |-> [i \in DOMAIN args |-> As16(args[i])]]

seL4_Untyped_Retype(c, l, kind) ==
    [cid |-> c, label |-> "Retype", kind |-> kind,
     args |-> <<As16(l.untyped), As16(l.slot)>>]

(* Mutant of seL4_Putstring: the last round sends a full item's worth. *)
seL4_PutstringNoRest(c, i) ==
    [cid |-> c, label |-> "PutString", args |-> [j \in 1 .. Chunk |-> i * Chunk + j]]

(* Round i of seL4_Putstring: Chunk characters, in the last round the      *)
(* rest, which may be nothing.  A character is its index in the string.    *)
seL4_Putstring(c, i) ==
    LET num == IF i < length \div Chunk THEN Chunk ELSE length - Chunk * i
    IN  [cid |-> c, label |-> "PutString", args |-> [j \in 1 .. num |-> i * Chunk + j]]

seL4_Putchar(c) == [cid |-> c, label |-> "PutChar", args |-> <<0>>]
seL4_RISCV_Page_Get_Address(c) == [cid |-> c, label |-> "GetAddress", args |-> <<>>]
seL4_TCB_Bind_Notification(c, l) == Item(c, "Bind", <<l.tcb, l.slot>>)
seL4_TCB_Unbind_Notification(c, l) == Item(c, "Unbind", <<l.tcb>>)
seL4_RISCV_PageTable_Map(c, l) == Item(c, "TableMap", <<l.slot>>)
seL4_RISCV_Page_Map(c, l) == Item(c, "PageMap", <<l.slot, c>>)   \* at page c
seL4_RISCV_Page_Unmap(c, l) == Item(c, "PageUnmap", <<l.slot>>)

(* The sections: which call comes next. *)
test_async_output_section(c, l) ==
    CASE l.k = 0 -> seL4_Putchar(c)
      [] l.k \in 1 .. Rounds -> seL4_Putstring(c, l.k - 1)
      [] OTHER -> seL4_RISCV_Page_Get_Address(c)

test_async_notification_section(c, l) ==
    CASE l.k = 0 -> seL4_Untyped_Retype(c, l, "ntfn")
      [] l.k = 1 -> seL4_TCB_Bind_Notification(c, l)
      [] OTHER -> seL4_TCB_Unbind_Notification(c, l)

test_async_riscv_page_section(c, l) ==
    CASE l.k = 0 -> seL4_Untyped_Retype(c, l, "pt")
      [] l.k = 1 -> seL4_RISCV_PageTable_Map(c, l)
      [] l.k = 2 -> seL4_Untyped_Retype(c, l, "page")
      [] OTHER -> seL4_RISCV_Page_Map(c, l)

(* AsyncMemoryAllocator::init. *)
AsyncMemoryAllocatorInit(c, l) ==
    IF l.k < PageNum THEN seL4_Untyped_Retype(c, l, "page")
    ELSE IF l.k = PageNum THEN seL4_Untyped_Retype(c, l, "pt")
    ELSE seL4_RISCV_PageTable_Map(c, l)

(* Mutant of async_memery_single_test: unmap and map are swapped. *)
async_memery_single_testUnmapFirst(c, l) ==
    IF l.k % 2 = 1 THEN seL4_RISCV_Page_Map(c, l) ELSE seL4_RISCV_Page_Unmap(c, l)

async_memery_single_test(c, l) ==
    IF l.k % 2 = 0 THEN seL4_RISCV_Page_Map(c, l) ELSE seL4_RISCV_Page_Unmap(c, l)

NextCall(c, l) ==
    CASE section = "output" -> test_async_output_section(c, l)
      [] section = "ntfn" -> test_async_notification_section(c, l)
      [] section = "page" -> test_async_riscv_page_section(c, l)
      [] section = "unmap" -> seL4_RISCV_Page_Unmap(c, l)
      [] section = "prepare" -> AsyncMemoryAllocatorInit(c, l)
      [] section = "memory" -> async_memery_single_test(c, l)
      [] section = "address" -> seL4_RISCV_Page_Get_Address(c)

-----------------------------------------------------------------------------
(* run_until_complete, and the coroutines. *)

(* seL4_Call_with_item up to its yield: the item, and the wake of the      *)
(* kernel's handler, which keeps the flag set while it is awake.           *)
seL4_Call_with_item(e, item) ==
    IF Len(req_items) < RingSize
    THEN /\ req_items' = Append(req_items, item)
         /\ recv_req_status' = TRUE
         /\ ex' = e
    ELSE /\ ex' = [e EXCEPT !.panic = TRUE]
         /\ UNCHANGED <<req_items, recv_req_status>>

(* The worker returns; the two page sections touch the page first, and if  *)
(* it is not mapped the thread faults.                                     *)
Return(e, c) ==
    IF section \in {"page", "unmap"} /\ MappedAt(oa, "page", 1) = {}
    THEN pc' = "fault" /\ ex' = e
    ELSE ex' = RemoveTask(e, c) /\ UNCHANGED pc

(* A worker is polled: past its yield, whatever woke it, it goes on to the *)
(* next call or returns.                                                   *)
Worker ==
    /\ At("fetch") /\ ~is_empty(ex)
    /\ \E f \in {Fetch(ex)} : f.got \in Workers /\
       \E p \in {Prepare(co[f.got])} :
        /\ immediate' = immediate \ {f.got}
        /\ IF co[f.got].k = Calls
           THEN /\ Return(f.ex, f.got)
                /\ UNCHANGED <<oa, co, req_items, recv_req_status>>
           ELSE /\ oa' = p.oa
                /\ UNCHANGED pc
                /\ co' = [co EXCEPT ![f.got] = [p.l EXCEPT !.k = @ + 1]]
                /\ IF p.oa.panic = "no"
                   THEN seL4_Call_with_item(f.ex, NextCall(f.got, p.l))
                   ELSE ex' = f.ex /\ UNCHANGED <<req_items, recv_req_status>>
    /\ UNCHANGED <<fixed, setup, res_items, recv_reply_status, reply_count, kernel, printed>>

(* The reply coroutine starts; or nothing is ready, and run_until_complete *)
(* asks again.                                                             *)
ReplyOrNone ==
    /\ At("fetch") /\ ~is_empty(ex)
    /\ \E f \in {Fetch(ex)} :
        /\ f.got \in {Receiver, NoCid}
        /\ ex' = f.ex
        /\ pc' = IF f.got = Receiver THEN "reply" ELSE "fetch"
    /\ UNCHANGED <<fixed, setup, oa, co, buffer, immediate, reply_count, kernel, printed>>

Pass ==
    /\ At("fetch")
    /\ is_empty(ex)
    /\ pc' = "pass"
    /\ UNCHANGED <<fixed, setup, oa, ex, co, buffer, immediate, reply_count, kernel, printed>>

(* The conversion of the reply's label: 5, of RISCVPageUnmap, is read as   *)
(* RISCVPageTableUnmap.                                                    *)
FromLabel(label) == IF label = "PageUnmap" THEN "TableUnmap" ELSE label

(* Mutant of JoinAddress: the parts are joined lowest first. *)
JoinAddressReversed(part) ==
    part[4] * 2 ^ (3 * PartBits) + part[3] * 2 ^ (2 * PartBits) + part[2] * 2 ^ PartBits + part[1]

(* The parts of an address put together as the code does it: + binds       *)
(* tighter than <<, so what is joined so far is shifted with each part.    *)
JoinAddress(part) ==
    LET width == 2 ^ (4 * PartBits)
        p1 == ((0 + part[1]) * 2 ^ (3 * PartBits)) % width
        p2 == ((p1 + part[2]) * 2 ^ (2 * PartBits)) % width
        p3 == ((p2 + part[3]) * 2 ^ PartBits) % width
    IN  p3 + part[4]

(* recv_reply_coroutine_async_syscall: a reply goes to its worker, e being *)
(* the executor with it woken; the last one expected ends the coroutine.   *)
HandOut(e, last) ==
    LET r == Head(res_items)
    IN  /\ res_items' = Tail(res_items)
        /\ printed' = IF FromLabel(r.label) = "GetAddress"
                      THEN printed \cup {JoinAddress(r.parts)} ELSE printed
        /\ immediate' = immediate \cup {r.cid}
        /\ reply_count' = reply_count + 1
        /\ ex' = IF last THEN RemoveTask(e, Receiver) ELSE e
        /\ pc' = IF last THEN "fetch" ELSE "reply"
        /\ UNCHANGED <<fixed, setup, oa, co, req_items, recv_req_status, recv_reply_status,
                       kernel>>

(* Mutant of ReplyPop: the coroutine stops one reply early. *)
ReplyPopOneShort ==
    /\ At("reply")
    /\ res_items # <<>>
    /\ HandOut(Wake(ex, Head(res_items).cid), reply_count + 1 = REPLY_NUM - 1)

(* Mutant of ReplyPop: the worker is woken twice. *)
ReplyPopWakesTwice ==
    /\ At("reply")
    /\ res_items # <<>>
    /\ HandOut(Wake(Wake(ex, Head(res_items).cid), Head(res_items).cid),
               reply_count + 1 = REPLY_NUM)

ReplyPop ==
    /\ At("reply")
    /\ res_items # <<>>
    /\ HandOut(Wake(ex, Head(res_items).cid), reply_count + 1 = REPLY_NUM)

(* No reply is found ... *)
ReplyEmpty ==
    /\ At("reply")
    /\ res_items = <<>>
    /\ pc' = "clear"
    /\ UNCHANGED <<fixed, setup, oa, ex, co, buffer, immediate, reply_count, kernel, printed>>

(* ... then the flag is cleared, whatever came since, and the yield. *)
ReplyBlock ==
    /\ At("clear")
    /\ recv_reply_status' = FALSE
    /\ pc' = "fetch"
    /\ UNCHANGED <<fixed, setup, oa, ex, co, req_items, res_items, recv_req_status, immediate,
                   reply_count, kernel, printed>>

-----------------------------------------------------------------------------
(* External: the kernel's handler of the requests. *)

Invoke(o, i) ==
    CASE i.label = "Retype" -> Retype(o, i.args[1], i.kind, i.args[2], 0)
      [] i.label = "Bind" -> Bind(o, i.args[1], i.args[2])
      [] i.label = "Unbind" -> Unbind(o, i.args[1])
      [] i.label = "TableMap" -> TableMap(o, i.args[1])
      [] i.label = "PageMap" -> PageMap(o, i.args[1], i.args[2])
      [] i.label = "PageUnmap" -> PageUnmap(o, i.args[1])
      [] OTHER -> o

Parts == [i \in 1 .. 4 |-> (paddr \div 2 ^ ((4 - i) * PartBits)) % 2 ^ PartBits]

KernelServe ==
    LET i == Head(req_items)
    IN  /\ recv_req_status /\ req_items # <<>>
        /\ Len(res_items) < RingSize
        /\ req_items' = Tail(req_items)
        /\ oa' = Invoke(oa, i)
        /\ out' = IF i.label \in {"PutChar", "PutString"} THEN out \o i.args ELSE out
        /\ done' = [done EXCEPT ![i.cid] = @ + 1]
        /\ res_items' = Append(res_items, [cid |-> i.cid, label |-> i.label, parts |-> Parts])
        /\ recv_reply_status' = TRUE
        /\ ex' = IF recv_reply_status THEN ex ELSE DelayWake(ex, Receiver)
        /\ UNCHANGED <<fixed, pc, setup, co, recv_req_status, immediate, reply_count, printed>>

KernelSleep ==
    /\ recv_req_status /\ req_items = <<>>
    /\ recv_req_status' = FALSE
    /\ UNCHANGED <<fixed, pc, setup, oa, ex, co, req_items, res_items, recv_reply_status,
                   immediate, reply_count, kernel, printed>>

-----------------------------------------------------------------------------

User == \/ Register \/ SpawnSection \/ Worker \/ ReplyOrNone \/ Pass
        \/ ReplyPop \/ ReplyEmpty \/ ReplyBlock

Kernel == KernelServe \/ KernelSleep

(* The test is over, or a panic or a fault has ended it. *)
Stopped == (pc \in {"pass", "fault"} \/ Panicked) /\ UNCHANGED vars

Next == Setup \/ User \/ Kernel \/ Stopped

(* The thread runs, and the kernel serves a request it was woken for. *)
Spec == Init /\ [][Next]_vars /\ WF_vars(User) /\ WF_vars(Kernel)

-----------------------------------------------------------------------------
(* Properties. *)

(* Every state component keeps its type. *)
TypeOK ==
    /\ pc \in {"setup", "spawn", "fetch", "reply", "clear", "pass", "fault"}
    /\ ExecutorType(ex)
    /\ oa.next \in 1 .. NumSlots + 1
    /\ oa.used \subseteq DOMAIN oa.list
    /\ \A c \in Workers : co[c].k \in 0 .. Calls /\ done[c] \in 0 .. co[c].k
    /\ immediate \subseteq Workers
    /\ reply_count \in 0 .. REPLY_NUM
    /\ Len(req_items) <= RingSize /\ Len(res_items) <= RingSize

(* No invocation is refused, synchronous or not, whatever was allocated    *)
(* before, as long as the slots in use have names of ArgRange: the slots   *)
(* and untypeds the allocator hands out are free, and what a worker names  *)
(* in a call is there by the time the kernel executes it.                  *)
KernelNeverRefuses == oa.next <= ArgRange => ~oa.refused

AtLeast(list, b) == Cardinality({i \in DOMAIN list : ~list[i].device /\ list[i].bits >= b})
Ascending(list) == \A i, j \in DOMAIN list : i < j => list[i].bits <= list[j].bits

(* If the untypeds are listed by size, first fit wastes none: the          *)
(* allocator gives up only when, for some size, more was asked for than    *)
(* there is.  (In another order a small object may take a large untyped.)  *)
PanicOnlyWhenShort ==
    Ascending(oa.list) /\ oa.panic = "untyped" =>
        \E b \in 0 .. MaxBits :
            MapThenSumSet(LAMBDA s : oa.asked[s], b .. MaxBits) > AtLeast(oa.list, b)

(* A worker inside a call has one token of it: the request, the reply or   *)
(* the value that was handed to it.  It is queued to run exactly if it has *)
(* the value, and by then the kernel has executed all its calls: no worker *)
(* goes on before its call is done; and the state has its type.            *)
OneTokenPerCall ==
    /\ TypeOK
    /\ ~Panicked /\ pc \in {"fetch", "reply", "clear"} =>
        \A c \in Live(ex) \cap {w \in Workers : co[w].k > 0} :
            /\ Cardinality({i \in DOMAIN req_items : req_items[i].cid = c})
                 + Cardinality({i \in DOMAIN res_items : res_items[i].cid = c})
                 + (IF c \in immediate THEN 1 ELSE 0) = 1
            /\ c \in Queued(ex, ex.tasks[c]) <=> c \in immediate
            /\ c \in immediate => done[c] = co[c].k

(* The console shows a prefix of X and the string, and all of it once      *)
(* syscall_putstring has returned, whether or not the string fills its     *)
(* last item.                                                              *)
PrintedInOrder ==
    section = "output" =>
        /\ IsPrefix(out, [i \in 1 .. length + 1 |-> i - 1])
        /\ co[1].k > 1 + Rounds => Len(out) = length + 1

(* An address of at most two parts is printed as it is. *)
AddressDecoded == paddr < 2 ^ (2 * PartBits) => printed \subseteq {paddr}

(* When the mapping test passes, what it mapped is unmapped again; when    *)
(* AsyncMemoryAllocator::init returns, every frame is there.               *)
PassMeansDone ==
    oa.next <= ArgRange =>
        /\ section = "memory" /\ pc = "pass" =>
              \A c \in Workers : MappedAt(oa, "page", c) = {}
        /\ section = "prepare" /\ co[1].k = Calls /\ 1 \notin Live(ex) =>
              /\ MappedAt(oa, "pt", 1) # {}
              /\ Cardinality({s \in Slots : Is(oa, s, "page")}) >= PageNum

AllCalls == IF section \in {"memory", "address"} THEN PageNum * Calls ELSE Calls

(* The ways in which run_until_complete never ends.  A reply came between  *)
(* the empty test and the clear of the flag, with none after it.           *)
ReplyLeft == /\ pc = "fetch" /\ res_items # <<>> /\ ~recv_reply_status
             /\ Receiver \in Live(ex) \ (ex.delay \cup Queued(ex, 1))

(* REPLY_NUM is not the number of calls: the reply coroutine has left and  *)
(* a worker waits, or all workers have left and it waits.                  *)
Miscounted == \/ REPLY_NUM < AllCalls /\ Live(ex) # {} /\ Receiver \notin Live(ex)
              \/ REPLY_NUM > AllCalls /\ Live(ex) = {Receiver}

(* The test ends as it should: every call is answered, the reply coroutine *)
(* stops at the last one, the page section can write to the page it mapped *)
(* and the unmap section faults on the page it unmapped.  Only a lack of   *)
(* kernel objects, a reply that is left lying or a REPLY_NUM that does not *)
(* fit the section can keep it from that.  (A slot past ArgRange is        *)
(* truncated, and the call goes to another capability.)                    *)
Completes ==
    \/ <>(\/ oa.panic # "no"
          \/ pc = IF section = "unmap" THEN "fault" ELSE "pass"
          \/ oa.next > ArgRange /\ pc \in {"pass", "fault"})
    \/ <>[](ReplyLeft \/ Miscounted)
=============================================================================
