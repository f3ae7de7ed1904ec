----------------------------- MODULE Scheduler ------------------------------
(***************************************************************************)
(* The scheduler of the kernel, the life of a task, and the interrupt      *)
(* retain counter both depend on: kernel/scheduling/Scheduler.cpp,         *)
(* kernel/scheduling/Blocker.cpp, kernel/tasking/Task.cpp, Tasking.cpp,    *)
(* Task-Launchpad.cpp, kernel/interrupts/Interupts.cpp and the interrupt   *)
(* handler of archs/x86_32.  There is one CPU.  A section of the kernel    *)
(* that runs with the interrupts disabled and does not yield is one        *)
(* action; the states in which the timer may preempt the kernel, or in     *)
(* which it has yielded, are kept apart by pc.                             *)
(*                                                                         *)
(* A deadline is kept as the number of ticks left until it, so that no     *)
(* clock has to be bounded.  Task identifiers are never reused by the      *)
(* code: MaxTask bounds the number of tasks ever created.                  *)
(***************************************************************************)
EXTENDS TaskList, Integers, FiniteSets

CONSTANTS
    MaxTask,    \* the greatest task identifier: bounds the tasks ever created
    NoTask,     \* no task
    ExitValue,  \* the exit values of the processes
    FAILURE,    \* PROCESS_FAILURE, what hj_process_cancel stores
    NoValue,    \* an exit value that was never stored
    Delay,      \* the durations a process sleeps or polls for, in ticks
    GcPeriod,   \* the period of the collector, in ticks (100 in the code)
    Calls       \* what each process does: the names of its system calls

(* tasking_initialize creates Idle, System and GarbageCollector first. *)
Idle   == 0
System == 1
Gc     == 2
Task   == 0 .. MaxTask
User   == 3 .. MaxTask

Syscall == {"sleep", "poll", "wait", "launch", "clone", "exit", "cancel"}

ASSUME SchedulerAssumption ==
    /\ MaxTask \in Nat /\ MaxTask >= 3
    /\ NoTask \notin Task
    /\ FAILURE \in ExitValue /\ NoValue \notin ExitValue
    /\ Delay \subseteq Nat /\ GcPeriod \in Nat \ {0}
    /\ Calls \in [User -> SUBSET Syscall]

Forever == -1   \* (Timeout)-1

VARIABLES
    state,      \* Task::_state
    nextId,     \* _task_ids
    tasks,      \* the tasks linked in _tasks
    freed,      \* the tasks whose memory was freed by task_destroy
    runList,    \* running_tasks
    blockList,  \* blocked_tasks
    running,    \* the task the CPU executes
    pc,         \* where in the kernel a task is
    blocker,    \* Task::blocker with the fields of the blocker
    child,      \* the task a task has launched last
    exit,       \* Task::exit_value
    first,      \* history: the first exit value a task was given
    late,       \* history: the task that a task has waited for last when it
                \* had ended already, and the exit value that was returned
    depth,      \* _depth of Interupts.cpp
    held,       \* history: the InterruptsRetainers that live across a yield
    ifl,        \* the interrupt flag of the CPU
    saved,      \* the interrupt flag in the saved frame of a task
    ready,      \* whether what the pollers wait for is available
    guessed,    \* history: a syscall named a task that is still being launched
    machine     \* "up", "panic", or "corrupt": freed memory was used

listVars == <<runList, blockList>>
irqVars  == <<depth, held, ifl, saved>>
histVars == <<first, late, guessed>>
vars == <<state, nextId, tasks, freed, runList, blockList, running, pc, blocker, child,
          exit, first, late, depth, held, ifl, saved, ready, guessed, machine>>

TaskState == {"none", "hang", "running", "blocked", "canceled"}

(* "run": outside of the sections below.  "parked": in task_block, after   *)
(* interrupts_release and before scheduler_yield.  "yielded": in           *)
(* scheduler_yield.  "load": in task_launch, between task_create and       *)
(* task_go.  "iterate", "sweep": the collector before and inside           *)
(* task_iterate.                                                           *)
Location == {"run", "parked", "yielded", "load", "iterate", "sweep"}

Blocker == [kind   : {"none", "time", "wait", "select", "read"},
            target : Task \cup {NoTask},         \* BlockerWait::_task
            left   : Nat \cup {Forever},         \* ticks until _timeout or _wakeup_tick
            result : {"none", "unblocked", "timeout"},
            value  : ExitValue \cup {NoValue},   \* *BlockerWait::_exit_value
            ret    : {"run", "load", "iterate"}] \* where task_block returns to

NoBlocker == [kind |-> "none", target |-> NoTask, left |-> Forever,
              result |-> "none", value |-> NoValue, ret |-> "run"]

(* What a wait that did not block has returned. *)
Answer   == [of : Task \cup {NoTask}, value : ExitValue \cup {NoValue}]
NoAnswer == [of |-> NoTask, value |-> NoValue]

TimeBlocker(d, l)   == [NoBlocker EXCEPT !.kind = "time", !.left = d, !.ret = l]
WaitBlocker(x)      == [NoBlocker EXCEPT !.kind = "wait", !.target = x]
SelectBlocker(d)    == [NoBlocker EXCEPT !.kind = "select", !.left = d]
ReadBlocker(l)      == [NoBlocker EXCEPT !.kind = "read", !.ret = l]
-----------------------------------------------------------------------------
(* Interupts.cpp.  A release that leaves _depth above zero leaves the      *)
(* interrupts disabled, whoever the remaining retains belong to; a process *)
(* gets them back when the syscall returns to user mode.                   *)
AfterReleaseAlways(d) == TRUE   \* mutant: the depth is not looked at
AfterRelease(d) == d = 0
AtReturn(t, d)  == t \in User \/ AfterRelease(d)

(* scheduler_did_change_task_state, for the list that holds the tasks in   *)
(* state s.                                                                *)
ListAfterNoRemove(l, s, x, old, new) ==   \* mutant: the old list keeps the task
    IF old # new /\ new = s THEN ListPush(l, x) ELSE l

ListAfter(l, s, x, old, new) ==
    IF old = new THEN l
    ELSE IF old = s THEN ListRemove(l, x)
    ELSE IF new = s THEN ListPush(l, x)
    ELSE l

RunListAfter(x, new)   == ListAfter(runList, "running", x, state[x], new)
BlockListUnlessCanceled(x, new) ==   \* mutant: a canceled task stays linked
    IF new = "canceled" THEN blockList
    ELSE ListAfter(blockList, "blocked", x, state[x], new)
BlockListAfter(x, new) == ListAfter(blockList, "blocked", x, state[x], new)

(* Blocker.cpp: can_unblock of a blocker, when the tasks are in states st. *)
CanUnblockOnHang(st, b) ==   \* mutant: a wait looks for the wrong state
    \/ b.kind = "time" /\ b.left = 0
    \/ b.kind = "wait" /\ b.target \in Task /\ st[b.target] = "hang"
    \/ b.kind \in {"select", "read"} /\ ready

CanUnblock(st, b) ==
    \/ b.kind = "time" /\ b.left = 0
    \/ b.kind = "wait" /\ b.target \in Task /\ st[b.target] = "canceled"
    \/ b.kind \in {"select", "read"} /\ ready

TimedOut(b) == b.kind # "time" /\ b.left = 0

(* wakeup_task_if_unblocked, for a task it wakes up: on_unblock of a wait  *)
(* copies the exit value of the target.                                    *)
WokenWithoutOnUnblock(st, ex, b) ==   \* mutant: on_unblock is not called
    [b EXCEPT !.result = IF CanUnblock(st, b) THEN "unblocked" ELSE "timeout"]

Woken(st, ex, b) ==
    [b EXCEPT !.result = IF CanUnblock(st, b) THEN "unblocked" ELSE "timeout",
              !.value  = IF CanUnblock(st, b) /\ b.kind = "wait" THEN ex[b.target] ELSE @]

(* schedule(), entered with the states st, the lists rl and bl, the        *)
(* blockers bk and the exit values ex.  A BlockerWait whose task was freed *)
(* would be read after free.                                               *)
Schedule(st, rl, bl, bk, ex) ==
    LET woken == {t \in bl.items : CanUnblock(st, bk[t]) \/ TimedOut(bk[t])}
        queue == ListPushEach(rl, bl, woken)
        stale == \E t \in bl.items : bk[t].kind = "wait" /\ bk[t].target \in freed
    IN  /\ state' = [t \in Task |-> IF t \in woken THEN "running" ELSE st[t]]
        /\ blocker' = [t \in Task |-> IF t \in woken THEN Woken(st, ex, bk[t]) ELSE bk[t]]
        /\ blockList' = ListRemoveAll(bl, woken)
        /\ \/ /\ queue.items = {}
              /\ running' = Idle
              /\ runList' = queue
           \/ \E h \in ListHeads(queue) :
              /\ running' = h
              /\ runList' = ListRotate(queue, h)
        /\ ifl' = saved'[running']
        /\ machine' = IF stale THEN "corrupt" ELSE machine
-----------------------------------------------------------------------------
(* tasking_initialize and interrupts_initialize have run: System executes, *)
(* the collector is ahead of it in the list.                               *)
Init ==
    /\ state = [t \in Task |-> CASE t = Idle -> "hang"
                                 [] t \in {System, Gc} -> "running"
                                 [] OTHER -> "none"]
    /\ nextId = 3
    /\ tasks = {Idle, System, Gc}
    /\ freed = {}
    /\ runList = [items |-> {System, Gc}, before |-> {<<Gc, System>>}]
    /\ blockList = EmptyList
    /\ running = System
    /\ pc = [t \in Task |-> "run"]
    /\ blocker = [t \in Task |-> NoBlocker]
    /\ child = [t \in Task |-> NoTask]
    /\ exit = [t \in Task |-> NoValue]
    /\ first = [t \in Task |-> NoValue]
    /\ late = [t \in Task |-> NoAnswer]
    /\ depth = 0
    /\ held = {}
    /\ ifl = TRUE
    /\ saved = [t \in Task |-> TRUE]
    /\ ready = FALSE
    /\ guessed = FALSE
    /\ machine = "up"

(* t executes code at location l. *)
At(t, l) == machine = "up" /\ running = t /\ pc[t] = l

(* Process t makes the system call c. *)
Calling(t, c) == t \in User /\ At(t, "run") /\ c \in Calls[t]

(* task_create and task_clone take x from _task_ids++. *)
TakeId(x) == x \in Task /\ x = nextId /\ nextId' = nextId + 1

BeingLaunched(x) == \E t \in Task : child[t] = x /\
    (pc[t] = "load" \/ blocker[t].ret = "load")
-----------------------------------------------------------------------------
(* interrupts_handler, IRQ 0: system_tick and schedule.  It is taken only  *)
(* while the interrupt flag is set; every deadline comes one tick nearer.  *)
NearerAlways(b) == [b EXCEPT !.left = @ - 1]   \* mutant: an infinite timeout runs out
NearerNever(b) == b                            \* mutant: the tick is not counted
Nearer(b) == [b EXCEPT !.left = IF @ > 0 THEN @ - 1 ELSE @]

Tick ==
    /\ machine = "up"
    /\ ifl
    /\ saved' = [saved EXCEPT ![running] = TRUE]
    /\ Schedule(state, runList, blockList, [t \in Task |-> Nearer(blocker[t])], exit)
    /\ UNCHANGED <<nextId, tasks, freed, pc, child, exit, first, late, depth, held, ready, guessed>>

(* scheduler_yield: interrupt 127 saves the frame and calls schedule. *)
Yield(t) ==
    /\ At(t, "parked")
    /\ pc' = [pc EXCEPT ![t] = "yielded"]
    /\ saved' = [saved EXCEPT ![t] = ifl]
    /\ Schedule(state, runList, blockList, blocker, exit)
    /\ UNCHANGED <<nextId, tasks, freed, child, exit, first, late, depth, held, ready, guessed>>

(* The end of task_block: the result is read, the blocker deleted.  A wait *)
(* also leaves the InterruptsRetainer of task_wait; System then panics     *)
(* ("Init has return").                                                    *)
Resume(t) ==
    /\ At(t, "yielded")
    /\ blocker' = [blocker EXCEPT ![t] = NoBlocker]
    /\ pc' = [pc EXCEPT ![t] = blocker[t].ret]
    /\ IF blocker[t].kind = "wait"
       THEN /\ depth' = depth - 1
            /\ held' = held \ {<<t, "task_wait">>}
       ELSE UNCHANGED <<depth, held>>
    /\ ifl' = IF blocker[t].ret = "run" THEN AtReturn(t, depth') ELSE ifl
    /\ machine' = IF t = System /\ blocker[t].kind = "wait" THEN "panic" ELSE machine
    /\ UNCHANGED <<state, nextId, tasks, freed, listVars, running, child, exit, histVars, saved, ready>>
-----------------------------------------------------------------------------
(* task_block(t, b) when b cannot be unblocked: d retains are left after   *)
(* its interrupts_release.                                                 *)
Park(t, b, d) ==
    /\ state' = [state EXCEPT ![t] = "blocked"]
    /\ runList' = RunListAfter(t, "blocked")
    /\ blockList' = BlockListAfter(t, "blocked")
    /\ blocker' = [blocker EXCEPT ![t] = b]
    /\ pc' = [pc EXCEPT ![t] = "parked"]
    /\ ifl' = AfterRelease(d)
    /\ UNCHANGED <<nextId, tasks, freed, running, child, exit, first, late, saved, ready>>

(* task_sleep by a process: it does not block for zero ticks. *)
Sleep(t, d) ==
    /\ Calling(t, "sleep")
    /\ ~CanUnblock(state, TimeBlocker(d, "run"))
    /\ Park(t, TimeBlocker(d, "run"), depth)
    /\ UNCHANGED <<depth, held, guessed, machine>>

(* task_fshandle_poll: the select blocks until an event or the timeout. *)
Poll(t, d) ==
    /\ Calling(t, "poll")
    /\ ~CanUnblock(state, SelectBlocker(d))
    /\ Park(t, SelectBlocker(d), depth)
    /\ UNCHANGED <<depth, held, guessed, machine>>

(* task_wait.  The caller gives any identifier that is linked in _tasks,   *)
(* its own included; System waits for init only.  If that task has ended,  *)
(* task_block does not block: on_unblock copies the exit value as it is    *)
(* now.  Otherwise the retainer of task_wait stays alive while the task is *)
(* blocked.                                                                *)
Wait(t, x) ==
    /\ Calling(t, "wait") \/ (At(System, "run") /\ t = System /\ x = child[System])
    /\ x \in tasks
    /\ guessed' = (guessed \/ BeingLaunched(x))
    /\ IF state[x] = "canceled"
       THEN /\ machine' = IF t = System THEN "panic" ELSE machine
            /\ ifl' = AtReturn(t, depth)
            /\ late' = [late EXCEPT ![t] = [of |-> x, value |-> exit[x]]]
            /\ UNCHANGED <<state, nextId, tasks, freed, listVars, running, pc, blocker, child,
                           exit, first, depth, held, saved, ready>>
       ELSE /\ Park(t, WaitBlocker(x), depth + 1)
            /\ depth' = depth + 1
            /\ held' = held \cup {<<t, "task_wait">>}
            /\ UNCHANGED machine

(* userspace_initialize ignores the result of process_wait: if init is     *)
(* already gone, the kernel panics as if it had returned.                  *)
WaitForGoneInit ==
    /\ At(System, "run") /\ child[System] \in freed
    /\ machine' = "panic"
    /\ UNCHANGED <<state, nextId, tasks, freed, listVars, running, pc, blocker, child, exit,
                   histVars, irqVars, ready>>
-----------------------------------------------------------------------------
(* task_launch up to task_create: the new task is linked in _tasks in      *)
(* state NONE.  System launches init only.                                 *)
LaunchBegin(t, x) ==
    /\ Calling(t, "launch") \/ (At(System, "run") /\ t = System /\ child[System] = NoTask)
    /\ TakeId(x)
    /\ tasks' = tasks \cup {x}
    /\ child' = [child EXCEPT ![t] = x]
    /\ pc' = [pc EXCEPT ![t] = "load"]
    /\ ifl' = AfterRelease(depth)
    /\ UNCHANGED <<state, freed, listVars, running, blocker, exit, histVars, depth, held,
                   saved, ready, machine>>

(* ELFLoader::load reads the executable; a read blocks while another task  *)
(* holds the lock of the file.                                             *)
LoadBlocks(t) ==
    /\ At(t, "load") /\ ~ready
    /\ Park(t, ReadBlocker("load"), depth)
    /\ UNCHANGED <<depth, held, guessed, machine>>

(* The end of task_launch: task_go makes the child runnable, whatever      *)
(* state it is in.                                                         *)
LaunchGo(t) ==
    LET x == child[t] IN
    /\ At(t, "load")
    /\ state' = [state EXCEPT ![x] = "running"]
    /\ runList' = RunListAfter(x, "running")
    /\ blockList' = BlockListAfter(x, "running")
    /\ saved' = [saved EXCEPT ![x] = TRUE]
    /\ pc' = [pc EXCEPT ![t] = "run"]
    /\ ifl' = AtReturn(t, depth)
    /\ machine' = IF x \in freed THEN "corrupt" ELSE machine
    /\ UNCHANGED <<nextId, tasks, freed, running, blocker, child, exit, histVars, depth, held, ready>>

(* task_destroy: the task leaves its list and _tasks, then is freed and    *)
(* its fields with it.                                                     *)
Destroy(x) ==
    /\ state' = [state EXCEPT ![x] = "none"]
    /\ runList' = RunListAfter(x, "none")
    /\ blockList' = BlockListAfter(x, "none")
    /\ tasks' = tasks \ {x}
    /\ freed' = freed \cup {x}
    /\ blocker' = [blocker EXCEPT ![x] = NoBlocker]
    /\ child' = [child EXCEPT ![x] = NoTask]
    /\ exit' = [exit EXCEPT ![x] = NoValue]
    /\ saved' = [saved EXCEPT ![x] = TRUE]

(* ELFLoader::load fails: the child is destroyed.  Without init the kernel *)
(* panics ("Failed to start init").                                        *)
LaunchFail(t) ==
    LET x == child[t] IN
    /\ At(t, "load")
    /\ Destroy(x)
    /\ pc' = [pc EXCEPT ![t] = "run"]
    /\ ifl' = AtReturn(t, depth)
    /\ machine' = IF x \in freed THEN "corrupt" ELSE IF t = System THEN "panic" ELSE machine
    /\ UNCHANGED <<nextId, running, histVars, depth, held, ready>>

(* HJ_PROCESS_CLONE: the clone is runnable at once, but task_clone does    *)
(* not link it in _tasks.                                                  *)
Clone(t, x) ==
    /\ Calling(t, "clone")
    /\ TakeId(x)
    /\ state' = [state EXCEPT ![x] = "running"]
    /\ runList' = RunListAfter(x, "running")
    /\ blockList' = BlockListAfter(x, "running")
    /\ saved' = [saved EXCEPT ![x] = TRUE]
    /\ ifl' = TRUE
    /\ UNCHANGED <<tasks, freed, running, pc, blocker, child, exit, histVars, depth, held,
                   ready, machine>>
-----------------------------------------------------------------------------
(* Task::cancel stores the exit value and changes the state. *)
SetExit(x, v) ==
    /\ exit' = [exit EXCEPT ![x] = v]
    /\ first' = [first EXCEPT ![x] = IF @ = NoValue THEN v ELSE @]

(* Task::cancel of the running task: it yields inside its retainer, and    *)
(* inside those of its callers (frames), and never comes back.             *)
CancelRunning(t, v, frames) ==
    /\ SetExit(t, v)
    /\ depth' = depth + Cardinality(frames)
    /\ held' = held \cup ({t} \X frames)
    /\ saved' = [saved EXCEPT ![t] = FALSE]
    /\ pc' = [pc EXCEPT ![t] = "yielded"]
    /\ Schedule([state EXCEPT ![t] = "canceled"], RunListAfter(t, "canceled"),
                BlockListAfter(t, "canceled"), blocker, exit')
    /\ UNCHANGED <<nextId, tasks, freed, child, late, ready, guessed>>

(* hj_process_exit, and the exceptions of a process (exit value -1). *)
Exit(t, v) ==
    /\ Calling(t, "exit")
    /\ CancelRunning(t, v, {"cancel"})

(* hj_process_cancel: any linked user task, the caller included. *)
Cancel(t, x) ==
    /\ Calling(t, "cancel")
    /\ x \in tasks \cap User
    /\ \/ /\ x = t
          /\ CancelRunning(t, FAILURE, {"cancel", "hj_process_cancel"})
       \/ /\ x # t
          /\ SetExit(x, FAILURE)
          /\ state' = [state EXCEPT ![x] = "canceled"]
          /\ runList' = RunListAfter(x, "canceled")
          /\ blockList' = BlockListAfter(x, "canceled")
          /\ guessed' = (guessed \/ BeingLaunched(x))
          /\ ifl' = TRUE
          /\ UNCHANGED <<nextId, tasks, freed, running, pc, blocker, child, late, depth, held,
                         saved, ready, machine>>
-----------------------------------------------------------------------------
(* garbage_collector: sleep ... *)
GcSleep ==
    /\ At(Gc, "run")
    /\ Park(Gc, TimeBlocker(GcPeriod, "iterate"), depth)
    /\ UNCHANGED <<depth, held, guessed, machine>>

(* ... then task_iterate, which retains the interrupts ... *)
GcRetain ==
    /\ At(Gc, "iterate")
    /\ pc' = [pc EXCEPT ![Gc] = "sweep"]
    /\ depth' = depth + 1
    /\ held' = held \cup {<<Gc, "task_iterate">>}
    /\ ifl' = FALSE
    /\ UNCHANGED <<state, nextId, tasks, freed, listVars, running, blocker, child, exit, histVars,
                   saved, ready, machine>>

(* ... destroy_task_if_canceled, whose own release is nested in it ... *)
GcDestroyNotRunning(x) ==   \* mutant: everything not started is taken for dead
    /\ At(Gc, "sweep")
    /\ x \in tasks /\ state[x] \in {"none", "canceled"}
    /\ Destroy(x)
    /\ pc' = [pc EXCEPT ![x] = "run"]
    /\ ifl' = AfterRelease(depth)
    /\ UNCHANGED <<nextId, running, histVars, depth, held, ready, machine>>

GcDestroy(x) ==
    /\ At(Gc, "sweep")
    /\ x \in tasks /\ state[x] = "canceled"
    /\ Destroy(x)
    /\ pc' = [pc EXCEPT ![x] = "run"]
    /\ ifl' = AfterRelease(depth)
    /\ UNCHANGED <<nextId, running, histVars, depth, held, ready, machine>>

(* ... until no canceled task is left, and around again. *)
GcReleaseNot ==   \* mutant: the end of the sweep forgets its release
    /\ At(Gc, "sweep")
    /\ \A x \in tasks : state[x] # "canceled"
    /\ pc' = [pc EXCEPT ![Gc] = "run"]
    /\ held' = held \ {<<Gc, "task_iterate">>}
    /\ ifl' = AfterRelease(depth)
    /\ UNCHANGED <<state, nextId, tasks, freed, listVars, running, blocker, child, exit,
                   histVars, depth, saved, ready, machine>>

GcRelease ==
    /\ At(Gc, "sweep")
    /\ \A x \in tasks : state[x] # "canceled"
    /\ pc' = [pc EXCEPT ![Gc] = "run"]
    /\ depth' = depth - 1
    /\ held' = held \ {<<Gc, "task_iterate">>}
    /\ ifl' = AfterRelease(depth')
    /\ UNCHANGED <<state, nextId, tasks, freed, listVars, running, blocker, child, exit, histVars,
                   saved, ready, machine>>
-----------------------------------------------------------------------------
(* What the processes poll for becomes available (a driver stores data, a  *)
(* lock is released), and a process consumes it.                           *)
BecomeReady ==
    /\ machine = "up" /\ ~ready
    /\ ready' = TRUE
    /\ UNCHANGED <<state, nextId, tasks, freed, listVars, running, pc, blocker, child, exit,
                   histVars, irqVars, machine>>

Consume(t) ==
    /\ Calling(t, "poll")
    /\ ready
    /\ ready' = FALSE
    /\ UNCHANGED <<state, nextId, tasks, freed, listVars, running, pc, blocker, child, exit,
                   histVars, irqVars, machine>>

(* The machine has stopped. *)
Stopped == machine # "up" /\ UNCHANGED vars
-----------------------------------------------------------------------------
GcStep == GcSleep \/ GcRetain \/ GcRelease \/ \E x \in Task : GcDestroy(x)

SystemStep == WaitForGoneInit \/ \E x \in Task : Wait(System, x) \/ LaunchBegin(System, x)

UserStep ==
    \E t \in User :
        \/ \E d \in Delay : Sleep(t, d)
        \/ \E d \in Delay \cup {Forever} : Poll(t, d)
        \/ \E x \in Task : Wait(t, x) \/ LaunchBegin(t, x) \/ Clone(t, x) \/ Cancel(t, x)
        \/ \E v \in ExitValue : Exit(t, v)
        \/ Consume(t)

(* What the running task does in the kernel of its own accord. *)
KernelStep(t) ==
    \/ Yield(t) \/ Resume(t)
    \/ LaunchGo(t) \/ LaunchFail(t) \/ LoadBlocks(t)
    \/ t = Gc /\ GcStep
    \/ t = System /\ SystemStep

Next ==
    \/ Tick
    \/ \E t \in Task : KernelStep(t)
    \/ UserStep
    \/ BecomeReady
    \/ Stopped

Spec == Init /\ [][Next]_vars

(* A task that is executed again and again gets through the kernel code it *)
(* is in, however often the timer interrupts it: a tick is long compared   *)
(* with an instruction.  A pending timer interrupt is latched by the       *)
(* interrupt controller until the interrupt flag is set.  Nothing is       *)
(* assumed of what the processes do in user mode: they may never make      *)
(* another system call.                                                    *)
Fairness ==
    /\ SF_vars(Tick)
    /\ \A t \in Task \ {Idle} : SF_vars(KernelStep(t))

FairSpec == Spec /\ Fairness
=============================================================================
