-------------------------------- MODULE Lock --------------------------------
(***************************************************************************)
(* The spin lock of libsystem (libsystem/thread/Lock.h) as the kernel uses *)
(* it for its nodes: a task takes it by acquire_for, which spins, or is    *)
(* given it by the scheduler, which calls acquire_for in on_unblock on     *)
(* behalf of a task blocked in task_block.  _locked and _holder are stored *)
(* separately, and a task may be preempted between the two stores.  There  *)
(* is one CPU; the steps of the scheduler are atomic.                      *)
(*                                                                         *)
(* A call that has allocated or freed memory runs with the interrupts      *)
(* disabled until it returns or blocks: malloc and free retain and release *)
(* the interrupts, and interrupts_release enables them only at depth zero, *)
(* which is not reached while System waits for init (Interrupts below).    *)
(* Such a call cannot be preempted, and if it spins on a lock that is      *)
(* taken, nothing ever runs again.                                         *)
(***************************************************************************)
CONSTANTS
    Thread,     \* the tasks that use the lock
    NoHolder    \* NO_HOLDER

ASSUME LockAssumption == NoHolder \notin Thread

VARIABLES
    locked,     \* _locked
    holder,     \* _holder
    pc,         \* where each task is
    alive,      \* the tasks that were not canceled
    masked,     \* the task that runs with the interrupts disabled
    failed,     \* ensure_failed was called: the kernel has panicked
    hung        \* a task spins for ever with the interrupts disabled

vars == <<locked, holder, pc, alive, masked, failed, hung>>

(* "spinning": in the loop of acquire_for.  "blocked": in task_block.      *)
(* "taken": between the two stores of acquire_for.  "in": the section the  *)
(* lock protects.  "ensured": after ensure_acquired_for.  "freed": between *)
(* the two stores of release_for.                                          *)
Location == {"out", "spinning", "blocked", "taken", "in", "ensured", "freed"}

Init ==
    /\ locked = FALSE
    /\ holder = NoHolder
    /\ pc = [t \in Thread |-> "out"]
    /\ alive = Thread
    /\ masked = NoHolder
    /\ failed = FALSE
    /\ hung = FALSE

(* Task t goes on from location l to location m. *)
Step(t, l, m) ==
    /\ ~failed /\ ~hung
    /\ t \in alive /\ masked \in {NoHolder, t}
    /\ pc[t] = l /\ pc' = [pc EXCEPT ![t] = m]
    /\ UNCHANGED alive

(* Interrupts: they stay as they are for t; or t may have allocated, which *)
(* leaves them disabled; or t gives the CPU up, to return or to wait.      *)
Keeps == UNCHANGED <<masked, hung>>
MayMask(t) == masked' \in {masked, t} /\ UNCHANGED hung
Yields == masked' = NoHolder /\ UNCHANGED hung

(* acquire_for is called, by a call that has allocated or by one that has  *)
(* not.                                                                    *)
Call(t) ==
    /\ Step(t, "out", "spinning") /\ MayMask(t)
    /\ UNCHANGED <<locked, holder, failed>>

(* The lock is taken, and the interrupts are disabled. *)
Hang(t) ==
    /\ Step(t, "spinning", "spinning")
    /\ masked = t /\ locked
    /\ hung' = TRUE
    /\ UNCHANGED <<locked, holder, masked, failed>>

(* The compare-and-swap succeeds. *)
CompareAndSwapAlways(t) ==   \* mutant: the old value is not compared
    /\ Step(t, "spinning", "taken") /\ Keeps
    /\ locked' = TRUE
    /\ UNCHANGED <<holder, failed>>

CompareAndSwap(t) ==
    /\ Step(t, "spinning", "taken") /\ Keeps
    /\ ~locked /\ locked' = TRUE
    /\ UNCHANGED <<holder, failed>>

StoreHolder(t) ==
    /\ Step(t, "taken", "in") /\ Keeps
    /\ holder' = t
    /\ UNCHANGED <<locked, failed>>

(* task_block finds the lock taken. *)
Block(t) ==
    /\ Step(t, "out", "blocked") /\ Yields
    /\ locked
    /\ UNCHANGED <<locked, holder, failed>>

(* task_block finds the lock free, or the scheduler does so for a blocked  *)
(* task: can_unblock and on_unblock run with the interrupts disabled.      *)
(* A task that finds it free itself goes on; a blocked one has to be       *)
(* scheduled first, and then deletes its blocker (Allocate).               *)
GrantNotHeld(t) ==   \* mutant: on_unblock does not name the task
    /\ \/ Step(t, "out", "in") /\ MayMask(t)
       \/ Step(t, "blocked", "in") /\ Keeps
    /\ ~locked /\ locked' = TRUE
    /\ UNCHANGED <<holder, failed>>

GrantUnasked(t) ==   \* mutant: can_unblock does not ask is_acquire
    /\ \/ Step(t, "out", "in") /\ MayMask(t)
       \/ Step(t, "blocked", "in") /\ Keeps
    /\ locked' = TRUE
    /\ holder' = t
    /\ UNCHANGED failed

Grant(t) ==
    /\ \/ Step(t, "out", "in") /\ MayMask(t)
       \/ Step(t, "blocked", "in") /\ Keeps
    /\ ~locked /\ locked' = TRUE
    /\ holder' = t
    /\ UNCHANGED failed

(* In the section the task allocates or frees memory. *)
Allocate(t) ==
    /\ Step(t, "in", "in")
    /\ masked' = t
    /\ UNCHANGED <<locked, holder, failed, hung>>

(* release_for: ensure_acquired_for ... *)
Ensure(t) ==
    /\ Keeps
    /\ Step(t, "in", IF locked /\ holder = t THEN "ensured" ELSE "in")
    /\ failed' = ~(locked /\ holder = t)
    /\ UNCHANGED <<locked, holder>>

(* ... _locked = 0 ... *)
UnlockNot(t) ==   \* mutant: the lock is not given back
    Step(t, "ensured", "freed") /\ Keeps /\ UNCHANGED <<locked, holder, failed>>

Unlock(t) ==
    /\ Step(t, "ensured", "freed") /\ Keeps
    /\ locked' = FALSE
    /\ UNCHANGED <<holder, failed>>

(* ... _holder = NO_HOLDER.  The call has nothing more to do with the lock *)
(* and returns.                                                            *)
ClearHolder(t) ==
    /\ Step(t, "freed", "out") /\ Yields
    /\ holder' = NoHolder
    /\ UNCHANGED <<locked, failed>>

(* Another task cancels t: wherever t is, it executes nothing more. *)
Cancel(t) ==
    /\ ~failed /\ ~hung
    /\ t \in alive /\ masked = NoHolder
    /\ alive' = alive \ {t}
    /\ UNCHANGED <<locked, holder, pc, masked, failed, hung>>

(* What t does of its own accord once it has called the lock. *)
Go(t) ==
    \/ CompareAndSwap(t) \/ Hang(t) \/ StoreHolder(t)
    \/ Ensure(t) \/ Unlock(t) \/ ClearHolder(t)

(* The scheduler wakes a blocked task up. *)
Wake(t) == pc[t] = "blocked" /\ Grant(t)

Next ==
    \E t \in Thread :
        Call(t) \/ Block(t) \/ Grant(t) \/ Allocate(t) \/ Go(t) \/ Cancel(t)

Spec == Init /\ [][Next]_vars

(* A task that is not canceled runs on as long as it may: the interrupts   *)
(* are enabled, so that the timer comes round to it, or it is itself the   *)
(* one that runs with the interrupts disabled.  Every scheduling looks at  *)
(* the blocked tasks.  A task may never use the lock again.                *)
FairSpec == Spec /\ \A t \in Thread : WF_vars(Go(t)) /\ WF_vars(Wake(t))
-----------------------------------------------------------------------------
TypeOK ==
    /\ locked \in BOOLEAN
    /\ holder \in Thread \cup {NoHolder}
    /\ pc \in [Thread -> Location]
    /\ alive \subseteq Thread
    /\ masked \in Thread \cup {NoHolder}
    /\ failed \in BOOLEAN /\ hung \in BOOLEAN

(* The tasks that own the lock. *)
Owners == {t \in Thread : pc[t] \in {"taken", "in", "ensured"}}

(* _locked is set exactly while a task owns the lock, a canceled one       *)
(* included, and no two tasks own it.                                      *)
OneOwner ==
    /\ \A t, u \in Owners : t = u
    /\ locked <=> Owners # {}

(* The owner's name may be erased by a release that comes late, but never  *)
(* replaced by that of another task.                                       *)
HolderIsOwnerOrErased ==
    \A t \in Thread : pc[t] \in {"in", "ensured"} => holder \in {t, NoHolder}

Inv == TypeOK /\ OneOwner /\ HolderIsOwnerOrErased

(* Lock implements Mutex. *)
owner == IF Owners = {} THEN NoHolder ELSE CHOOSE t \in Thread : t \in Owners
M == INSTANCE Mutex WITH Nobody <- NoHolder
MutexSpec == M!Spec

(* Release is called by the owner only, so that ensure_acquired_for never  *)
(* fails ("lock-held-by-someone-else").                                    *)
EnsureHolds == ~failed

(* Who owns the lock gives it back unless it is canceled, and a free lock  *)
(* that is wanted is taken.  There are two more ends: the panic of         *)
(* ensure_acquired_for, and the machine that hangs because a call with the *)
(* interrupts disabled spins on the lock of a task that was preempted      *)
(* (or canceled) while it had it.                                          *)
Stopped == failed \/ hung
Wanted == \E t \in alive : pc[t] \in {"spinning", "blocked"}

LockIsPassedOn ==
    /\ \A t \in Thread :
           (t \in Owners) ~> (t \notin Owners \/ t \notin alive \/ Stopped)
    /\ (Owners = {} /\ Wanted /\ ~Stopped) ~> (Owners # {} \/ ~Wanted \/ Stopped)
=============================================================================
