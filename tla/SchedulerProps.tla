--------------------------- MODULE SchedulerProps ---------------------------
(***************************************************************************)
(* What the scheduler, the life of a task and the retain counter promise.  *)
(***************************************************************************)
EXTENDS Scheduler

Frame == {"task_wait", "task_iterate", "cancel", "hj_process_cancel"}

(* Every variable has its type. *)
TypeOK ==
    /\ state \in [Task -> TaskState]
    /\ nextId \in Nat
    /\ tasks \subseteq Task
    /\ freed \subseteq Task
    /\ runList \in ListOver(Task)
    /\ blockList \in ListOver(Task)
    /\ running \in Task
    /\ pc \in [Task -> Location]
    /\ blocker \in [Task -> Blocker]
    /\ child \in [Task -> Task \cup {NoTask}]
    /\ exit \in [Task -> ExitValue \cup {NoValue}]
    /\ first \in [Task -> ExitValue \cup {NoValue}]
    /\ late \in [Task -> Answer]
    /\ depth \in Int
    /\ held \subseteq (Task \X Frame)
    /\ ifl \in BOOLEAN
    /\ saved \in [Task -> BOOLEAN]
    /\ ready \in BOOLEAN
    /\ guessed \in BOOLEAN
    /\ machine \in {"up", "panic", "corrupt"}

(* scheduler_did_change_task_state keeps the two lists in step with the    *)
(* states: a task is linked exactly once, in the list of its state, and in *)
(* no list in any other state.                                             *)
ListsMatchStates ==
    /\ IsTaskList(runList) /\ runList.items = {t \in Task : state[t] = "running"}
    /\ IsTaskList(blockList) /\ blockList.items = {t \in Task : state[t] = "blocked"}

(* schedule() never executes a task that is not runnable: the running task *)
(* is Idle, or at the tail of the run list, or still on its way from       *)
(* task_block to scheduler_yield.  A task comes back from the yield of     *)
(* task_block, where it reads _result, only after the scheduler has woken  *)
(* it up and stored the result; a canceled one does not come back.         *)
RunningIsRunnable ==
    /\ \/ running = Idle
       \/ state[running] = "blocked" /\ pc[running] = "parked"
       \/ /\ state[running] = "running"
          /\ \A t \in runList.items \ {running} : <<t, running>> \in runList.before
    /\ pc[running] = "yielded" => blocker[running].result # "none"

(* _depth is the number of retainers alive: those of the tasks blocked in  *)
(* task_wait, that of the collector, and those that a process canceled     *)
(* inside a retainer will never release.                                   *)
RetainAccounting == depth = Cardinality(held)

(* The collector frees tasks without being preempted, although task_destroy *)
(* releases the interrupts in the middle of the sweep.                     *)
SweepNotPreempted == pc[Gc] = "sweep" => running = Gc /\ ~ifl

(* Freed tasks are neither scheduled, nor waited for, nor launched, unless *)
(* a process has named a task that its launcher had not announced yet.     *)
NoUseAfterFree ==
    ~guessed =>
        /\ machine # "corrupt"
        /\ running \notin freed
        /\ \A t \in Task : state[t] = "blocked" /\ blocker[t].kind = "wait" =>
               blocker[t].target \notin freed

(* A task that was blocked in task_wait when its target ended gets the     *)
(* exit value its target ended with, not one that a later cancel has       *)
(* stored over it.  A task that comes to wait later may get what a later   *)
(* cancel has stored, but no other value.                                  *)
WaiterGetsFirstExit ==
    ~guessed =>
        \A t \in Task :
            /\ blocker[t].kind = "wait" /\ blocker[t].result = "unblocked" =>
                   blocker[t].value = first[blocker[t].target]
            /\ late[t].of # NoTask => late[t].value \in {first[late[t].of], FAILURE}

(* A canceled task stays canceled until it is freed, a freed one stays     *)
(* freed.                                                                  *)
CanceledIsFinal ==
    [][~guessed' =>
        \A t \in Task :
            /\ state[t] = "canceled" => state'[t] = "canceled" \/ t \in freed'
            /\ t \in freed => t \in freed' /\ state'[t] = "none"]_vars

(* Round robin: of two runnable tasks, the one behind overtakes the other  *)
(* only because that one has had its turn, and gets the CPU only if it has *)
(* it already.                                                             *)
NoOvertaking ==
    [][\A t, u \in runList.items \cap runList'.items :
            <<t, u>> \in runList.before =>
                /\ <<t, u>> \in runList'.before \/ running' = t
                /\ running' = u => running = u]_vars

-----------------------------------------------------------------------------
(* The kernel has not panicked.  It also stops when it is corrupt, but that *)
(* excuses nothing.                                                        *)
NoPanic == machine # "panic"

(* A task blocked in task_wait is made runnable once its target is         *)
(* canceled, and gets to read its result, or is canceled itself.           *)
WaiterReturns ==
    \A t \in User :
        (NoPanic /\ blocker[t].kind = "wait" /\ state[t] # "canceled"
            /\ state[blocker[t].target] = "canceled")
        ~> (~NoPanic \/ blocker[t].kind # "wait" \/ state[t] = "canceled")

(* The collector frees every canceled task that is linked in _tasks.       *)
CanceledIsFreed ==
    \A t \in User :
        (NoPanic /\ state[t] = "canceled" /\ t \in tasks) ~> (~NoPanic \/ t \in freed)

(* A runnable task gets the CPU, whatever the others do with the retain    *)
(* counter, their sleeps and the end of the tasks they wait for.           *)
RunnableRuns ==
    \A t \in Task :
        (NoPanic /\ state[t] = "running") ~> (~NoPanic \/ running = t \/ state[t] # "running")
=============================================================================
