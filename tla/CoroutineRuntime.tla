------------------------- MODULE CoroutineRuntime -------------------------
(***************************************************************************)
(* One thread that uses the runtime of async_runtime/src/lib.rs: its main  *)
(* code spawns coroutines and calls coroutine_run_until_blocked, the       *)
(* coroutines spawn, wake, yield and finish as they like, and user         *)
(* interrupts delay-wake the coroutines registered to receive them.        *)
(***************************************************************************)
EXTENDS Executor

CONSTANTS Receivers,    \* the ids WAKE_MAP holds
          MaxLive,      \* bound: coroutines a program keeps at a time
          MaxSpare,     \* bound: wakes an undisciplined program wastes
          Disciplines   \* the kinds of program to consider

ASSUME RuntimeAssumption ==
    /\ Receivers \subseteq 0 .. WordBits - 1
    /\ MaxLive \in Nat
    /\ MaxSpare \in Nat
    /\ Disciplines \subseteq BOOLEAN

VARIABLES ex,     \* the thread's EXECUTOR
          pc,     \* "main", "fetch" in run_until_blocked, "run" in execute()
          owed,   \* history: live coroutines woken or spawned and not run since
          spare,  \* wakes that may still be wasted
          disciplined   \* the kind of program, fixed from the start: TRUE if it
                        \* never wakes a coroutine that is already woken and
                        \* keeps no more coroutines than a ready ring can hold

vars == <<ex, pc, owed, spare, disciplined>>

Init == /\ ex = New
        /\ pc = "main"
        /\ owed = {}
        /\ disciplined \in Disciplines
        /\ spare = IF disciplined THEN 0 ELSE MaxSpare

Ok == ~ex.panic

(* A wake is wasted on a coroutine that is already woken or gone, and on   *)
(* one that ends before it has run for it.                                 *)
Spend(wasted) == spare' = (IF wasted THEN spare - 1 ELSE spare) /\ spare' >= 0

MayWake(c) == Spend(c \notin Live(ex) \ owed)

(* coroutine_spawn_with_prio, from the main code or from a coroutine. *)
SpawnCoroutine(prio) ==
    /\ Ok
    /\ pc \in {"main", "run"}
    /\ Cardinality(Live(ex)) < MaxLive
    /\ disciplined => Cardinality(Live(ex)) < MaxTask - 1
    /\ ex' = Spawn(ex, prio)
    /\ owed' = owed \cup (Live(ex') \ Live(ex))
    /\ UNCHANGED <<pc, spare>>

(* coroutine_run_until_blocked is entered from the main loop. *)
Enter ==
    /\ Ok
    /\ pc = "main"
    /\ pc' = "fetch"
    /\ UNCHANGED <<ex, owed, spare>>

(* One turn of run_until_blocked's loop: fetch, then execute or return. *)
FetchNext ==
    /\ Ok
    /\ pc = "fetch"
    /\ LET f == Fetch(ex)
       IN  /\ ex' = f.ex
           /\ pc' = IF f.ex.panic \/ f.got # NoCid THEN "run" ELSE "main"
           /\ owed' = owed \ {f.got}
           /\ UNCHANGED spare

(* coroutine_wake by the running coroutine; ids are kept in tables and     *)
(* messages, so the coroutine may be gone.                                 *)
WakeCoroutine(c) ==
    /\ Ok
    /\ pc = "run"
    /\ MayWake(c)
    /\ ex' = Wake(ex, c)
    /\ owed' = owed \cup ({c} \cap Live(ex))
    /\ UNCHANGED pc

(* possible_switch of async_lib.rs: give way to a higher priority. *)
PossibleSwitch ==
    /\ Ok
    /\ pc = "run"
    /\ LET s == SwitchPossible(ex)
       IN  \/ /\ s.yes
              /\ MayWake(ex.current)
              /\ ex' = Wake(s.ex, ex.current)
              /\ owed' = owed \cup {ex.current}
              /\ pc' = "fetch"
           \/ /\ ~s.yes
              /\ ex' = s.ex
              /\ UNCHANGED <<pc, owed, spare>>

(* The coroutine awaits YieldHelper: execute() returns Pending. *)
Yield ==
    /\ Ok
    /\ pc = "run"
    /\ pc' = "fetch"
    /\ UNCHANGED <<ex, owed, spare>>

(* The coroutine ends: execute() returns Ready and the task is removed. *)
Finish ==
    /\ Ok
    /\ pc = "run"
    /\ Spend(ex.current \in owed)
    /\ ex' = RemoveTask(ex, ex.current)
    /\ pc' = "fetch"
    /\ owed' = owed \ {ex.current}

(* uintr_handler runs between any two instructions of the thread. *)
Interrupt(c) ==
    /\ Ok
    /\ MayWake(c)
    /\ ex' = DelayWake(ex, c)
    /\ owed' = owed \cup ({c} \cap Live(ex))
    /\ UNCHANGED pc

Step == \/ \E prio \in Prios : SpawnCoroutine(prio)
        \/ Enter
        \/ FetchNext
        \/ \E c \in TaskIds : WakeCoroutine(c)
        \/ PossibleSwitch
        \/ Yield
        \/ Finish
        \/ \E c \in Receivers : Interrupt(c)

Next == Step /\ UNCHANGED disciplined

Spec == Init /\ [][Next]_vars

-----------------------------------------------------------------------------
(* Properties. *)

(* Every state component keeps its type. *)
TypeOK == /\ ExecutorType(ex)
          /\ pc \in {"main", "fetch", "run"}
          /\ owed \subseteq TaskIds
          /\ spare \in 0 .. MaxSpare

(* coroutine_num, the task array and the id allocator agree, so an id in   *)
(* use is never handed out twice; and a coroutine that is being executed   *)
(* is in the task array, whatever wakes and interrupts did meanwhile.  The *)
(* state has its type, after a panic too.                                  *)
TasksMatchIds ==
    /\ TypeOK
    /\ Ok => /\ ex.num = Cardinality(Live(ex))
             /\ ex.ids = Live(ex)
             /\ pc = "run" => ex.current \in Live(ex)

(* No wake is lost: a coroutine that was woken, directly or by an          *)
(* interrupt, and has not run since is in a ready queue whose priority bit *)
(* is set, or still in delay_wake_cids.                                    *)
NoLostWake ==
    Ok => \A c \in owed : \/ c \in ex.delay
                          \/ \E p \in ex.bitmap : c \in Queued(ex, p)

(* With wakers that never wake twice, the ready structure is exact: the    *)
(* bit map and the queues agree, and no coroutine is queued twice, in a    *)
(* queue of another priority, or after it is gone.  Otherwise a fetch      *)
(* could return None, and keep returning it, with coroutines ready.        *)
ReadyExact == disciplined => Exact(ex)

(* With wakers that never wake twice and fewer than MAX_TASK_NUM           *)
(* coroutines, no unwrap, assert or index of the executor ever panics.     *)
NoPanic == disciplined => Ok

(* With wakers that never wake twice, run_until_blocked only returns when  *)
(* every coroutine is blocked: no woken coroutine is left behind.          *)
ReturnsOnlyBlocked ==
    [][disciplined /\ pc = "fetch" /\ pc' = "main" => owed' = {}]_vars

(* A coroutine is only taken from a ready queue when no queue of a higher  *)
(* priority has anything in it, delayed wakes included.                    *)
HighestPriorityFirst ==
    [][disciplined /\ pc = "fetch" /\ pc' = "run" /\ ~ex'.panic =>
          \A p \in Prios : ex'.ready[p] # <<>> => p >= ex'.tasks[ex'.current]]_vars
=============================================================================
