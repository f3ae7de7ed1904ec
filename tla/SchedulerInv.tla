---------------------------- MODULE SchedulerInv ----------------------------
(***************************************************************************)
(* The inductive invariant of the scheduler, part by part.                 *)
(***************************************************************************)
EXTENDS SchedulerProps

(* t is in task_launch, or will return to it when its read ends. *)
Loading(t) == pc[t] = "load" \/ (pc[t] \in {"parked", "yielded"} /\ blocker[t].ret = "load")

(* The three tasks of the kernel.  Idle never enters a list. *)
KernelTasks ==
    /\ state[Idle] = "hang" /\ pc[Idle] = "run"
    /\ \A t \in {Idle, System, Gc} : state[t] \notin {"none", "canceled"} /\ t \notin freed

(* Only the identifiers below nextId have been used. *)
UnusedIds ==
    /\ nextId >= 3
    /\ \A x \in Task : x >= nextId =>
           state[x] = "none" /\ pc[x] = "run" /\ x \notin tasks /\ x \notin freed
    /\ \A t \in Task : child[t] # NoTask => child[t] < nextId
    /\ \A t \in Task : blocker[t].kind = "wait" => blocker[t].target \in Task
                                                /\ blocker[t].target < nextId

(* A task on its way through task_block is blocked, or has been woken up   *)
(* and has its result, or has been canceled.  No other task has a blocker. *)
BlockedOrWoken ==
    \A t \in Task :
        /\ pc[t] \notin {"parked", "yielded"} => blocker[t].kind = "none" /\ blocker[t].ret = "run"
        /\ state[t] = "blocked" => pc[t] \in {"parked", "yielded"}
        /\ state[t] = "running" /\ pc[t] \in {"parked", "yielded"} =>
               blocker[t].result # "none"

(* A task being launched has not run yet, and has one launcher. *)
LaunchedOnce ==
    \A t \in Task :
        Loading(t) =>
            /\ child[t] \in User
            /\ state[child[t]] \in {"none", "canceled"}
            /\ pc[child[t]] = "run"
            /\ \A u \in Task : Loading(u) /\ child[u] = child[t] => u = t

(* Where the retainers that live across a yield are. *)
HeldFrames ==
    /\ IsFiniteSet(held)
    /\ pc[Gc] = "sweep" => <<Gc, "task_iterate">> \in held
    /\ \A t \in Task :
           pc[t] \in {"parked", "yielded"} /\ blocker[t].kind = "wait" =>
               <<t, "task_wait">> \in held
    /\ \A t \in Task, f \in Frame : <<t, f>> \in held =>
           \/ f = "task_wait" /\ pc[t] \in {"parked", "yielded"} /\ blocker[t].kind = "wait"
           \/ f = "task_iterate" /\ t = Gc /\ pc[t] = "sweep"
           \/ f \in {"cancel", "hj_process_cancel"} /\ state[t] = "canceled" /\ pc[t] = "yielded"
           \/ t \in freed

(* Only the collector is at its locations. *)
SweeperIsGc ==
    \A t \in Task : pc[t] \in {"iterate", "sweep"} \/ blocker[t].ret = "iterate" => t = Gc

(* A freed task is unlinked and, until freed memory is used, not revived.  *)
FreedIsGone ==
    /\ tasks \cap freed = {}
    /\ machine # "corrupt" => \A t \in freed : state[t] = "none" /\ pc[t] = "run"

(* Every schedule wakes up the tasks that wait for a canceled one: while   *)
(* there is one, the process that canceled it has not left the CPU.        *)
CanceledHasNoWaiter ==
    \A t \in Task :
        state[t] = "blocked" /\ blocker[t].kind = "wait"
            /\ state[blocker[t].target] = "canceled" => running \in User

(* Until a process names a task that is being launched, nobody waits for   *)
(* it, and it is not canceled.                                             *)
LaunchedIsUnknown ==
    ~guessed =>
        \A t \in Task :
            Loading(t) =>
                /\ state[child[t]] = "none" /\ child[t] \in tasks
                /\ \A u \in Task : blocker[u].kind = "wait" => blocker[u].target # child[t]

IInv ==
    /\ TypeOK
    /\ ListsMatchStates
    /\ RunningIsRunnable
    /\ KernelTasks
    /\ UnusedIds
    /\ BlockedOrWoken
    /\ LaunchedOnce
    /\ SweeperIsGc
    /\ RetainAccounting
    /\ HeldFrames
    /\ SweepNotPreempted
    /\ FreedIsGone
    /\ CanceledHasNoWaiter
    /\ LaunchedIsUnknown
    /\ NoUseAfterFree

(* What a task that is canceled was given as its exit value.  Whoever is   *)
(* still blocked on it was there when another process canceled it, which   *)
(* stores FAILURE, as any later cancel does; its own exit wakes them all   *)
(* up before anything else happens.  Once copied, the value is kept.       *)
FirstExit ==
    ~guessed =>
        /\ \A x \in Task : state[x] = "canceled" => first[x] # NoValue
        /\ \A x \in Task : state[x] # "canceled" /\ x \notin freed => first[x] = NoValue
        /\ \A t \in Task :
               state[t] = "blocked" /\ blocker[t].kind = "wait"
                   /\ state[blocker[t].target] = "canceled" =>
                   exit[blocker[t].target] = FAILURE /\ first[blocker[t].target] = FAILURE
        /\ \A t \in Task :
               blocker[t].kind = "wait" /\ blocker[t].result = "unblocked" =>
                   /\ blocker[t].value = first[blocker[t].target]
                   /\ first[blocker[t].target] # NoValue

(* A wait for a canceled task copies what is stored now, which only a      *)
(* cancel can have stored over the first value.                            *)
StoredExit ==
    ~guessed =>
        /\ \A x \in Task : state[x] = "canceled" => exit[x] \in {first[x], FAILURE}
        /\ \A t \in Task : late[t].of # NoTask =>
               /\ late[t].value \in {first[late[t].of], FAILURE}
               /\ first[late[t].of] # NoValue
=============================================================================
