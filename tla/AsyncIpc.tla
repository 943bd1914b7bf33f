----------------------------- MODULE AsyncIpc -----------------------------
(***************************************************************************)
(* Asynchronous IPC between two threads over one NewBuffer, as             *)
(* ipc_test.rs runs it: the client's coroutines call                       *)
(* seL4_Call_with_item (async_lib.rs) and wait; the server's               *)
(* recv_req_coroutine answers; the client's recv_reply_coroutine hands     *)
(* each answer to the coroutine that waits for it.  A receiver with        *)
(* nothing to do clears its status flag and yields; a sender that finds    *)
(* the flag clear sets it and sends a user interrupt.                      *)
(*                                                                         *)
(* Both threads have affinity 0: one of them is on the core at a time, but *)
(* the kernel may preempt it between any two accesses to shared memory.    *)
(* The rings are the FIFO queues SafeRingBuffer implements.  Before that   *)
(* the threads exchange what they need of each other in an AsyncArgs,      *)
(* whose fields are set and tested under its spin lock.                    *)
(***************************************************************************)
EXTENDS Executor

CONSTANTS CoroutineNum,   \* COROUTINE_NUM, the client's calling coroutines
          SendNum,        \* SEND_NUM, the calls they make in all
          RingSize,       \* MAX_ITEM_NUM
          Schedulers      \* the kinds of scheduler to consider

ASSUME IpcAssumption ==
    /\ CoroutineNum \in Nat \ {0}
    /\ SendNum \in Nat \ {0}
    /\ RingSize \in Nat \ {0}
    /\ Schedulers \subseteq BOOLEAN
    /\ CoroutineNum < MaxTask
    /\ MaxPrio > 1

Client == "client"
Server == "server"
Threads == {Client, Server}
Other(t) == IF t = Client THEN Server ELSE Client
NoThread == "no thread"

\* The first coroutine each thread spawns receives its interrupts.
Receiver == 0
Callers == 1 .. CoroutineNum
NoItem == -1

VARIABLES
    ex,                  \* the EXECUTOR of each thread
    pc,                  \* where each thread is
    cur,                 \* the thread on the core
    args,                \* the fields of AsyncArgs that are set
    lock,                \* the holder of its lock, or NoThread
    registered,          \* threads whose WAKE_MAP names the receiver
    preemptive,          \* fixed; FALSE: a thread leaves the core only by yield
    req_items,           \* the rings; an item is named by its cid, the caller
    res_items,
    recv_req_status,     \* TRUE: the receiver is awake or about to be woken
    recv_reply_status,
    uipi,                \* user interrupts posted and not yet taken
    immediate,           \* the client's IMMEDIATE_VALUE
    awaiting,            \* callers suspended in yield_now()
    item,                \* the request the server is processing
    mute_send_num,       \* MUTE_SEND_NUM: calls still to start
    reply_count,         \* REPLY_COUNT
    req_num              \* REQ_NUM

setup == <<args, lock, registered>>
shared == <<req_items, res_items, recv_req_status, recv_reply_status>>
clientvars == <<immediate, awaiting, mute_send_num, reply_count>>
servervars == <<item, req_num>>
vars == <<ex, pc, cur, setup, preemptive, shared, uipi, clientvars, servervars>>

Init ==
    /\ ex = [t \in Threads |-> New]
    /\ pc = [t \in Threads |-> IF t = Server THEN "register" ELSE "none"]
    /\ cur = Server
    /\ args = {} /\ lock = NoThread /\ registered = {}
    /\ preemptive \in Schedulers
    /\ req_items = <<>> /\ res_items = <<>>
    /\ recv_req_status = FALSE /\ recv_reply_status = FALSE
    /\ uipi = [t \in Threads |-> FALSE]
    /\ immediate = [c \in TaskIds |-> NoItem]
    /\ awaiting = {}
    /\ item = NoItem
    /\ mute_send_num = SendNum
    /\ reply_count = 0 /\ req_num = 0

At(t, label) == cur = t /\ pc[t] = label
Goto(t, label) == pc' = [pc EXCEPT ![t] = label]

(* The thread that runs after a yield of t: the other, if it can. *)
Switch(t) == IF pc[Other(t)] \in {"none", "passed"} THEN t ELSE Other(t)

-----------------------------------------------------------------------------
(* The setup of async_ipc_test and async_helper_thread. *)

rest == <<shared, uipi, clientvars, servervars>>

(* What the client takes from AsyncArgs with unwrap() as it registers. *)
Needed == {"child_tcb", "req_ntfn", "ipc_new_buffer"}

(* The receiver is spawned and its cid registered for interrupts. *)
Register(t) ==
    /\ At(t, "register")
    /\ ex' = [ex EXCEPT ![t] = Spawn(@, IF t = Server THEN 1 ELSE 0)]
    /\ registered' = registered \cup {t}
    /\ Goto(t, IF t = Server THEN "set_args"
               ELSE IF Needed \subseteq args THEN "set_reply" ELSE "panic")
    /\ UNCHANGED <<cur, args, lock, rest>>

(* lock.lock(), a spin lock. *)
LockArgs(t) ==
    /\ cur = t
    /\ pc[t] \in {"set_args", "set_child", "wait_reply", "set_ready",
                  "wait_args", "set_reply", "wait_ready"}
    /\ lock = NoThread
    /\ lock' = t
    /\ UNCHANGED <<ex, pc, cur, args, registered, rest>>

(* A thread with the lock sets fields, releases it and goes on. *)
SetArgs(t, label, fields, next) ==
    /\ At(t, label) /\ lock = t
    /\ args' = args \cup fields
    /\ lock' = NoThread
    /\ Goto(t, next)
    /\ UNCHANGED <<ex, cur, registered, rest>>

(* It tests fields, and goes on or yields and locks again. *)
WaitArgs(t, label, fields, next) ==
    /\ At(t, label) /\ lock = t
    /\ lock' = NoThread
    /\ IF fields \subseteq args THEN Goto(t, next) /\ UNCHANGED cur
                              ELSE cur' = Switch(t) /\ UNCHANGED pc
    /\ UNCHANGED <<ex, args, registered, rest>>

(* create_thread resumes the client before its tcb is in AsyncArgs. *)
CreateClient ==
    /\ At(Server, "create")
    /\ pc' = [pc EXCEPT ![Server] = "set_child", ![Client] = "wait_args"]
    /\ UNCHANGED <<ex, cur, setup, rest>>

async_ipc_test ==
    \/ SetArgs(Server, "set_args", {"req_ntfn", "ipc_new_buffer"}, "create")
    \/ CreateClient
    \/ SetArgs(Server, "set_child", {"child_tcb"}, "wait_reply")
    \/ WaitArgs(Server, "wait_reply", {"reply_ntfn"}, "set_ready")
    \/ SetArgs(Server, "set_ready", {"server_sender_id", "server_ready"}, "main")

(* Mutant of async_helper_thread: it does not wait for its own tcb. *)
async_helper_threadEager ==
    \/ WaitArgs(Client, "wait_args", Needed \ {"child_tcb"}, "register")
    \/ SetArgs(Client, "set_reply", {"client_sender_id", "reply_ntfn"}, "wait_ready")
    \/ WaitArgs(Client, "wait_ready", {"server_ready"}, "spawn")

async_helper_thread ==
    \/ WaitArgs(Client, "wait_args", Needed, "register")
    \/ SetArgs(Client, "set_reply", {"client_sender_id", "reply_ntfn"}, "wait_ready")
    \/ WaitArgs(Client, "wait_ready", {"server_ready"}, "spawn")

SpawnCallers ==
    /\ At(Client, "spawn")
    /\ ex' = [ex EXCEPT ![Client] = SpawnMany(@, CoroutineNum, 1)]
    /\ Goto(Client, "main")
    /\ UNCHANGED <<cur, setup, rest>>

SetupStep(t) ==
    \/ Register(t) \/ LockArgs(t)
    \/ t = Server /\ async_ipc_test
    \/ t = Client /\ (async_helper_thread \/ SpawnCallers)

-----------------------------------------------------------------------------
(* The run loop of each thread, and the core. *)

(* while !coroutine_is_empty(): enter run_until_blocked, or pass the test  *)
(* ("async client passed", "TEST_PASS") and suspend the thread.            *)
MainLoop(t) ==
    /\ At(t, "main")
    /\ IF is_empty(ex[t])
       THEN Goto(t, "passed") /\ cur' = Other(t)
       ELSE Goto(t, "fetch") /\ UNCHANGED cur
    /\ UNCHANGED <<ex, shared, uipi, clientvars, servervars>>

Entry(t, c) == IF t = Server THEN "req_pop"
               ELSE IF c = Receiver THEN "reply_pop" ELSE "call"

FetchNext(t) ==
    /\ At(t, "fetch")
    /\ LET f == Fetch(ex[t])
       IN  /\ ex' = [ex EXCEPT ![t] = f.ex]
           /\ Goto(t, IF f.got = NoCid THEN "yield" ELSE Entry(t, f.got))
    /\ UNCHANGED <<cur, shared, uipi, clientvars, servervars>>

(* r#yield(): the other thread gets the core unless it is suspended. *)
Yield(t) ==
    /\ At(t, "yield")
    /\ Goto(t, "main")
    /\ cur' = Switch(t)
    /\ UNCHANGED <<ex, shared, uipi, clientvars, servervars>>

(* The end of a time slice. *)
Preempt ==
    /\ preemptive
    /\ cur' = Switch(cur) /\ cur' # cur
    /\ UNCHANGED <<ex, pc, shared, uipi, clientvars, servervars>>

(* Mutant of Interrupt: the pending interrupt is dropped. *)
InterruptDropped(t) ==
    /\ cur = t
    /\ uipi[t]
    /\ pc[t] # "passed"
    /\ uipi' = [uipi EXCEPT ![t] = FALSE]
    /\ UNCHANGED <<ex, pc, cur, shared, clientvars, servervars>>

(* __handler_entry and uintr_handler: on the core, a thread with a posted  *)
(* interrupt delay-wakes the receiver WAKE_MAP names.                      *)
Interrupt(t) ==
    /\ cur = t
    /\ uipi[t]
    /\ pc[t] # "passed"
    /\ uipi' = [uipi EXCEPT ![t] = FALSE]
    /\ IF t \in registered
       THEN ex' = [ex EXCEPT ![t] = DelayWake(@, Receiver)] /\ UNCHANGED pc
       ELSE Goto(t, "panic") /\ UNCHANGED ex
    /\ UNCHANGED <<cur, shared, clientvars, servervars>>

-----------------------------------------------------------------------------
(* client_call_test with seL4_Call_with_item. *)

(* The coroutine ends, execute() returns Ready and its task is removed. *)
End(t) ==
    /\ ex' = [ex EXCEPT ![t] = RemoveTask(@, ex[t].current)]
    /\ Goto(t, "fetch")

(* A caller starts, or resumes after yield_now(): a resumed call without a *)
(* reply is the error the test panics on.  Then it makes its next call or  *)
(* ends.                                                                   *)
Call ==
    LET c == ex[Client].current
        failed == c \in awaiting /\ immediate[c] = NoItem
    IN  /\ At(Client, "call")
        /\ immediate' = [immediate EXCEPT ![c] = NoItem]
        /\ awaiting' = awaiting \ {c}
        /\ \/ /\ mute_send_num > 0
              /\ mute_send_num' = mute_send_num - 1
              /\ req_items' = Append(req_items, c)
              /\ Goto(Client, IF failed \/ Len(req_items) = RingSize
                              THEN "panic" ELSE "call_test")
              /\ UNCHANGED ex
           \/ /\ mute_send_num = 0
              /\ IF failed THEN Goto(Client, "panic") /\ UNCHANGED ex
                           ELSE End(Client)
              /\ UNCHANGED <<mute_send_num, req_items>>
        /\ UNCHANGED <<cur, res_items, recv_req_status, recv_reply_status, uipi,
                       reply_count, servervars>>

Suspend == awaiting' = awaiting \cup {ex[Client].current}

CallTest ==
    /\ At(Client, "call_test")
    /\ IF recv_req_status
       THEN Goto(Client, "fetch") /\ Suspend
       ELSE Goto(Client, "call_store") /\ UNCHANGED awaiting
    /\ UNCHANGED <<ex, cur, shared, uipi, immediate, mute_send_num, reply_count,
                   servervars>>

CallStore ==
    /\ At(Client, "call_store")
    /\ recv_req_status' = TRUE
    /\ Goto(Client, "call_uipi")
    /\ UNCHANGED <<ex, cur, req_items, res_items, recv_reply_status, uipi,
                   clientvars, servervars>>

CallUipi ==
    /\ At(Client, "call_uipi")
    /\ uipi' = [uipi EXCEPT ![Server] = TRUE]
    /\ Goto(Client, "fetch")
    /\ Suspend
    /\ UNCHANGED <<ex, cur, shared, immediate, mute_send_num, reply_count,
                   servervars>>

-----------------------------------------------------------------------------
(* recv_reply_coroutine. *)

(* Mutant of ReplyPop: the caller is woken before its value is stored, and *)
(* the value is then dropped.                                              *)
ReplyPopNoValue ==
    /\ At(Client, "reply_pop")
    /\ \/ /\ res_items # <<>>
          /\ res_items' = Tail(res_items)
          /\ reply_count' = reply_count + 1
          /\ ex' = [ex EXCEPT ![Client] = Wake(@, Head(res_items))]
          /\ UNCHANGED pc
       \/ /\ res_items = <<>>
          /\ Goto(Client, "reply_idle")
          /\ UNCHANGED <<res_items, reply_count, ex>>
    /\ UNCHANGED <<cur, req_items, recv_req_status, recv_reply_status, uipi,
                   immediate, awaiting, mute_send_num, servervars>>

ReplyPop ==
    /\ At(Client, "reply_pop")
    /\ \/ /\ res_items # <<>>
          /\ LET c == Head(res_items)
                 woken == Wake(ex[Client], c)
             IN  /\ res_items' = Tail(res_items)
                 /\ immediate' = [immediate EXCEPT ![c] = c]
                 /\ reply_count' = reply_count + 1
                 /\ IF reply_count' = SendNum
                    THEN /\ ex' = [ex EXCEPT ![Client] = RemoveTask(woken, Receiver)]
                         /\ Goto(Client, "fetch")
                    ELSE /\ ex' = [ex EXCEPT ![Client] = woken]
                         /\ UNCHANGED pc
       \/ /\ res_items = <<>>
          /\ Goto(Client, "reply_idle")
          /\ UNCHANGED <<res_items, immediate, reply_count, ex>>
    /\ UNCHANGED <<cur, req_items, recv_req_status, recv_reply_status, uipi,
                   awaiting, mute_send_num, servervars>>

ReplyIdle ==
    /\ At(Client, "reply_idle")
    /\ recv_reply_status' = FALSE
    /\ Goto(Client, "fetch")
    /\ UNCHANGED <<ex, cur, req_items, res_items, recv_req_status, uipi,
                   clientvars, servervars>>

-----------------------------------------------------------------------------
(* recv_req_coroutine. *)

ReqPop ==
    /\ At(Server, "req_pop")
    /\ \/ /\ req_items # <<>>
          /\ item' = Head(req_items)
          /\ req_items' = Tail(req_items)
          /\ Goto(Server, "rep_push")
       \/ /\ req_items = <<>>
          /\ Goto(Server, "req_idle")
          /\ UNCHANGED <<item, req_items>>
    /\ UNCHANGED <<ex, cur, res_items, recv_req_status, recv_reply_status, uipi,
                   clientvars, req_num>>

RepPush ==
    /\ At(Server, "rep_push")
    /\ res_items' = Append(res_items, item)
    /\ item' = NoItem
    /\ Goto(Server, IF Len(res_items) = RingSize THEN "panic" ELSE "rep_test")
    /\ UNCHANGED <<ex, cur, req_items, recv_req_status, recv_reply_status, uipi,
                   clientvars, req_num>>

RepTest ==
    /\ At(Server, "rep_test")
    /\ Goto(Server, IF recv_reply_status THEN "req_count" ELSE "rep_store")
    /\ UNCHANGED <<ex, cur, shared, uipi, clientvars, servervars>>

RepStore ==
    /\ At(Server, "rep_store")
    /\ recv_reply_status' = TRUE
    /\ Goto(Server, "rep_uipi")
    /\ UNCHANGED <<ex, cur, req_items, res_items, recv_req_status, uipi,
                   clientvars, servervars>>

RepUipi ==
    /\ At(Server, "rep_uipi")
    /\ uipi' = [uipi EXCEPT ![Client] = TRUE]
    /\ Goto(Server, IF "server_sender_id" \in args THEN "req_count" ELSE "panic")
    /\ UNCHANGED <<ex, cur, shared, clientvars, servervars>>

ReqCount ==
    /\ At(Server, "req_count")
    /\ req_num' = req_num + 1
    /\ IF req_num' = SendNum
       THEN End(Server)
       ELSE Goto(Server, "req_pop") /\ UNCHANGED ex
    /\ UNCHANGED <<cur, shared, uipi, clientvars, item>>

(* Mutant of ReqIdle: the server yields without clearing its flag. *)
ReqIdleKeepsStatus ==
    /\ At(Server, "req_idle")
    /\ Goto(Server, "fetch")
    /\ UNCHANGED <<ex, cur, shared, uipi, clientvars, servervars>>

(* The flag is cleared after the ring was found empty, and the ring is not *)
(* looked at again before yielding.                                        *)
ReqIdle ==
    /\ At(Server, "req_idle")
    /\ recv_req_status' = FALSE
    /\ Goto(Server, "fetch")
    /\ UNCHANGED <<ex, cur, req_items, res_items, recv_reply_status, uipi,
                   clientvars, servervars>>

-----------------------------------------------------------------------------

Passed == \A t \in Threads : pc[t] = "passed"

Terminated == Passed /\ UNCHANGED vars

ClientStep == Call \/ CallTest \/ CallStore \/ CallUipi \/ ReplyPop \/ ReplyIdle

ServerStep == ReqPop \/ RepPush \/ RepTest \/ RepStore \/ RepUipi \/ ReqCount
                \/ ReqIdle

Step(t) == \/ MainLoop(t) \/ FetchNext(t) \/ Yield(t)
           \/ t = Client /\ ClientStep
           \/ t = Server /\ ServerStep

(* A step of a thread, during its setup or after. *)
Run(t) == /\ SetupStep(t) \/ (Step(t) /\ UNCHANGED setup)
          /\ UNCHANGED preemptive

TakeInterrupt(t) == Interrupt(t) /\ UNCHANGED <<setup, preemptive>>

Next == \/ \E t \in Threads : Run(t) \/ TakeInterrupt(t)
        \/ Preempt /\ UNCHANGED <<setup, preemptive>>
        \/ Terminated

(* A thread that is given the core again and again gets on with its code,  *)
(* and an interrupt posted to it is taken: what the kernel's time slices   *)
(* and the interrupt hardware guarantee.                                   *)
Fairness == \A t \in Threads : SF_vars(Run(t)) /\ SF_vars(TakeInterrupt(t))

Spec == Init /\ [][Next]_vars /\ Fairness

-----------------------------------------------------------------------------
(* Properties. *)

(* Where a thread can be. *)
Labels == {"none", "register", "create", "spawn", "set_args", "set_child",
           "wait_reply", "set_ready", "wait_args", "set_reply", "wait_ready",
           "main", "fetch", "yield", "passed", "panic",
           "call", "call_test", "call_store", "call_uipi", "reply_pop",
           "reply_idle", "req_pop", "rep_push", "rep_test", "rep_store",
           "rep_uipi", "req_count", "req_idle"}

(* Every state component keeps its type. *)
TypeOK ==
    /\ \A t \in Threads : ExecutorType(ex[t])
    /\ lock \in Threads \cup {NoThread}
    /\ pc \in [Threads -> Labels]
    /\ cur \in Threads
    /\ preemptive \in BOOLEAN
    /\ req_items \in Seq(Callers) /\ Len(req_items) <= RingSize
    /\ res_items \in Seq(Callers) /\ Len(res_items) <= RingSize
    /\ recv_req_status \in BOOLEAN /\ recv_reply_status \in BOOLEAN
    /\ uipi \in [Threads -> BOOLEAN]
    /\ immediate \in [TaskIds -> Callers \cup {NoItem}]
    /\ awaiting \subseteq Callers
    /\ item \in Callers \cup {NoItem}
    /\ mute_send_num \in 0 .. SendNum
    /\ reply_count \in 0 .. SendNum
    /\ req_num \in 0 .. SendNum

(* The test never panics: no unwrap of a full ring (both rings are larger  *)
(* than the number of callers), no overflow of a ready queue, no caller    *)
(* resumes without its reply ("client test fail!"), and no thread needs a  *)
(* field of AsyncArgs or an entry of WAKE_MAP before the other has set it. *)
NoPanic == \A t \in Threads : pc[t] # "panic" /\ ~ex[t].panic

Occurrences(s, c) == Cardinality({k \in DOMAIN s : s[k] = c})

(* A caller has a call outstanding from its push until it resumes. *)
Outstanding(c) ==
    \/ c \in awaiting
    \/ c = ex[Client].current /\ pc[Client] \in {"call_test", "call_store", "call_uipi"}

(* A call that is outstanding exists exactly once, as a request, in the    *)
(* server's hands, as a reply or as the caller's value, and a caller       *)
(* without an outstanding call owns nothing: no reply is lost, duplicated  *)
(* or delivered to another call, however the threads interleave; and the   *)
(* state has its type.                                                     *)
OneTokenPerCall ==
    /\ TypeOK
    /\ \A c \in Callers :
          Occurrences(req_items, c) + Occurrences(res_items, c)
            + (IF item = c THEN 1 ELSE 0)
            + (IF immediate[c] = c THEN 1 ELSE 0)
          = IF Outstanding(c) THEN 1 ELSE 0

(* Something will make the server look at the request ring. *)
ServerWakes ==
    \/ pc[Server] \in {"req_pop", "rep_push", "rep_test", "rep_store", "rep_uipi",
                       "req_count"}
    \/ Receiver \in Queued(ex[Server], 1)
    \/ Receiver \in ex[Server].delay
    \/ uipi[Server]
    \/ pc[Client] \in {"call_store", "call_uipi"}

(* Something will make the client's receiver look at the reply ring. *)
ClientWakes ==
    \/ pc[Client] = "reply_pop"
    \/ Receiver \in Queued(ex[Client], 0)
    \/ Receiver \in ex[Client].delay
    \/ uipi[Client]
    \/ pc[Server] \in {"rep_store", "rep_uipi"}

(* A sender that finds the flag set may rely on it: the receiver is awake, *)
(* about to clear the flag, or its wake-up is on the way.  (Once all calls *)
(* are answered nobody listens any more.)                                  *)
StatusMeansWake ==
    /\ recv_req_status /\ req_num < SendNum
         => ServerWakes \/ pc[Server] = "req_idle"
    /\ recv_reply_status /\ reply_count < SendNum
         => ClientWakes \/ pc[Client] = "reply_idle"

(* If threads leave the core only by yielding, no item is left in a ring   *)
(* with its receiver asleep and nothing on the way to wake it.             *)
NoStrandedItem ==
    ~preemptive =>
    /\ req_items # <<>> => ServerWakes \/ pc[Client] = "call_test"
    /\ res_items # <<>> => ClientWakes \/ pc[Server] = "rep_test"

(* If threads leave the core only by yielding, the test completes: the     *)
(* server prints TEST_PASS and the client reports that it passed.          *)
Completes == ~preemptive => <>Passed

(* The line test.py waits for: async_ipc_test prints TEST_PASS. *)
PrintsTestPass == <>(pc[Server] = "passed")
=============================================================================
