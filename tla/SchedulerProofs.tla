--------------------------- MODULE SchedulerProofs --------------------------
(***************************************************************************)
(* The invariants of the scheduler, proved for any number of tasks, any    *)
(* durations and any processes.                                            *)
(***************************************************************************)
EXTENDS SchedulerInv, FiniteSetTheorems, TLAPS

-----------------------------------------------------------------------------
(* What the operations on a list preserve, for lists of any values.        *)

(* A set of pairs lies in the product that contains each of its pairs. *)
LEMMA PairsInProduct ==
    ASSUME NEW S, NEW T, NEW B, B \subseteq S \X S,
           \A y, z : <<y, z>> \in B => y \in T /\ z \in T
    PROVE  B \subseteq T \X T
    <1> SUFFICES ASSUME NEW p \in B
                 PROVE  p \in T \X T
        OBVIOUS
    <1>1. p \in S \X S
        OBVIOUS
    <1>2. PICK y \in S, z \in S : p = <<y, z>>
        BY <1>1
    <1> QED
        BY <1>2

(* The conditions of IsTaskList, value by value, are enough. *)
LEMMA TaskListByPairs ==
    ASSUME NEW S, NEW l \in ListOver(S),
           \A y, z : <<y, z>> \in l.before => y \in l.items /\ z \in l.items,
           \A y \in l.items : <<y, y>> \notin l.before,
           \A y, z \in l.items : y # z => (<<y, z>> \in l.before <=> <<z, y>> \notin l.before),
           \A w, y, z \in l.items :
               <<w, y>> \in l.before /\ <<y, z>> \in l.before => <<w, z>> \in l.before
    PROVE  IsTaskList(l)
    <1> DEFINE B == l.before
               T == l.items
    <1>1. B \subseteq S \X S
        BY DEF ListOver
    <1>2. \A y, z : <<y, z>> \in B => y \in T /\ z \in T
        OBVIOUS
    <1>3. B \subseteq T \X T
        <2> HIDE DEF B, T
        <2> QED
            BY <1>1, <1>2, PairsInProduct
    <1> QED
        BY <1>3 DEF IsTaskList

(* The values that a well-formed list orders are its own. *)
LEMMA TaskListPairs ==
    ASSUME NEW l, IsTaskList(l)
    PROVE  \A y, z : <<y, z>> \in l.before => y \in l.items /\ z \in l.items
    BY DEF IsTaskList

(* list_push of a value that is not in the list keeps the list well formed *)
(* and puts the value before every other.                                  *)
LEMMA PushIsTaskList ==
    ASSUME NEW S, NEW l \in ListOver(S), NEW x \in S, IsTaskList(l), x \notin l.items
    PROVE  /\ ListPush(l, x) \in ListOver(S)
           /\ IsTaskList(ListPush(l, x))
           /\ ListPush(l, x).items = l.items \cup {x}
           /\ \A y, z : <<y, z>> \in ListPush(l, x).before <=>
                  <<y, z>> \in l.before \/ (y = x /\ z \in l.items)
    <1> DEFINE r == ListPush(l, x)
    <1>1. r.items = l.items \cup {x}
        BY DEF ListPush
    <1>2. \A y, z : <<y, z>> \in r.before <=> <<y, z>> \in l.before \/ (y = x /\ z \in l.items)
        BY DEF ListPush
    <1>3. r \in ListOver(S)
        BY DEF ListPush, ListOver
    <1>4. \A y, z : <<y, z>> \in l.before => y \in l.items /\ z \in l.items
        BY TaskListPairs
    <1> HIDE DEF r
    <1>5. IsTaskList(r)
        <2>1. \A y \in r.items : <<y, y>> \notin r.before
            BY <1>1, <1>2, <1>4 DEF IsTaskList
        <2>2. \A y, z \in r.items : y # z => (<<y, z>> \in r.before <=> <<z, y>> \notin r.before)
            BY <1>1, <1>2, <1>4 DEF IsTaskList
        <2>3. \A w, y, z \in r.items :
                <<w, y>> \in r.before /\ <<y, z>> \in r.before => <<w, z>> \in r.before
            BY <1>1, <1>2, <1>4 DEF IsTaskList
        <2>4. \A y, z : <<y, z>> \in r.before => y \in r.items /\ z \in r.items
            BY <1>1, <1>2, <1>4
        <2> QED
            BY <1>3, <2>1, <2>2, <2>3, <2>4, TaskListByPairs
    <1> QED
        BY <1>1, <1>2, <1>3, <1>5 DEF r

(* list_pushback of a value that is not in the list keeps it well formed   *)
(* and puts the value behind every other.                                  *)
LEMMA PushbackIsTaskList ==
    ASSUME NEW S, NEW l \in ListOver(S), NEW x \in S, IsTaskList(l), x \notin l.items
    PROVE  /\ ListPushback(l, x) \in ListOver(S)
           /\ IsTaskList(ListPushback(l, x))
           /\ ListPushback(l, x).items = l.items \cup {x}
           /\ \A y, z : <<y, z>> \in ListPushback(l, x).before <=>
                  <<y, z>> \in l.before \/ (y \in l.items /\ z = x)
    <1> DEFINE r == ListPushback(l, x)
    <1>1. r.items = l.items \cup {x}
        BY DEF ListPushback
    <1>2. \A y, z : <<y, z>> \in r.before <=> <<y, z>> \in l.before \/ (y \in l.items /\ z = x)
        BY DEF ListPushback
    <1>3. r \in ListOver(S)
        BY DEF ListPushback, ListOver
    <1>4. \A y, z : <<y, z>> \in l.before => y \in l.items /\ z \in l.items
        BY TaskListPairs
    <1> HIDE DEF r
    <1>5. IsTaskList(r)
        <2>1. \A y \in r.items : <<y, y>> \notin r.before
            BY <1>1, <1>2, <1>4 DEF IsTaskList
        <2>2. \A y, z \in r.items : y # z => (<<y, z>> \in r.before <=> <<z, y>> \notin r.before)
            BY <1>1, <1>2, <1>4 DEF IsTaskList
        <2>3. \A w, y, z \in r.items :
                <<w, y>> \in r.before /\ <<y, z>> \in r.before => <<w, z>> \in r.before
            BY <1>1, <1>2, <1>4 DEF IsTaskList
        <2>4. \A y, z : <<y, z>> \in r.before => y \in r.items /\ z \in r.items
            BY <1>1, <1>2, <1>4
        <2> QED
            BY <1>3, <2>1, <2>2, <2>3, <2>4, TaskListByPairs
    <1> QED
        BY <1>1, <1>2, <1>3, <1>5 DEF r

(* list_remove keeps the order of the values that stay. *)
LEMMA RemoveIsTaskList ==
    ASSUME NEW S, NEW l \in ListOver(S), NEW X, IsTaskList(l)
    PROVE  /\ ListRemoveAll(l, X) \in ListOver(S)
           /\ IsTaskList(ListRemoveAll(l, X))
           /\ ListRemoveAll(l, X).items = l.items \ X
           /\ \A y, z : <<y, z>> \in ListRemoveAll(l, X).before <=>
                  <<y, z>> \in l.before /\ y \notin X /\ z \notin X
    <1> DEFINE r == ListRemoveAll(l, X)
    <1>1. r.items = l.items \ X
        BY DEF ListRemoveAll
    <1>2. \A y, z : <<y, z>> \in r.before <=> <<y, z>> \in l.before /\ y \notin X /\ z \notin X
        BY DEF ListRemoveAll
    <1>3. r \in ListOver(S)
        BY DEF ListRemoveAll, ListOver
    <1>4. \A y, z : <<y, z>> \in l.before => y \in l.items /\ z \in l.items
        BY TaskListPairs
    <1> HIDE DEF r
    <1>5. IsTaskList(r)
        <2>1. \A y \in r.items : <<y, y>> \notin r.before
            BY <1>1, <1>2, <1>4 DEF IsTaskList
        <2>2. \A y, z \in r.items : y # z => (<<y, z>> \in r.before <=> <<z, y>> \notin r.before)
            BY <1>1, <1>2 DEF IsTaskList
        <2>3. \A w, y, z \in r.items :
                <<w, y>> \in r.before /\ <<y, z>> \in r.before => <<w, z>> \in r.before
            BY <1>1, <1>2 DEF IsTaskList
        <2>4. \A y, z : <<y, z>> \in r.before => y \in r.items /\ z \in r.items
            BY <1>1, <1>2, <1>4
        <2> QED
            BY <1>3, <2>1, <2>2, <2>3, <2>4, TaskListByPairs
    <1> QED
        BY <1>1, <1>2, <1>3, <1>5 DEF r

(* list_peek_and_pushback keeps the values and moves the head to the tail. *)
LEMMA RotateIsTaskList ==
    ASSUME NEW S, NEW l \in ListOver(S), NEW h \in ListHeads(l), IsTaskList(l)
    PROVE  /\ ListRotate(l, h) \in ListOver(S)
           /\ IsTaskList(ListRotate(l, h))
           /\ ListRotate(l, h).items = l.items
           /\ \A y \in l.items \ {h} : <<y, h>> \in ListRotate(l, h).before
    <1> DEFINE m == ListRemove(l, h)
    <1>1. h \in S /\ h \in l.items
        BY DEF ListOver, ListHeads
    <1>2. /\ m \in ListOver(S)
          /\ IsTaskList(m)
          /\ m.items = l.items \ {h}
        BY RemoveIsTaskList DEF ListRemove
    <1>3. ListRotate(l, h) = ListPushback(m, h)
        BY DEF ListRotate
    <1> HIDE DEF m
    <1>4. h \notin m.items /\ m.items \cup {h} = l.items
        BY <1>1, <1>2
    <1>5. /\ ListPushback(m, h) \in ListOver(S)
          /\ IsTaskList(ListPushback(m, h))
          /\ ListPushback(m, h).items = m.items \cup {h}
          /\ \A y \in m.items : <<y, h>> \in ListPushback(m, h).before
        BY <1>1, <1>2, <1>4, PushbackIsTaskList
    <1> QED
        BY <1>2, <1>3, <1>4, <1>5

(* Waking up tasks from the head to the tail of a list, each pushed on     *)
(* another list, keeps that one well formed.                               *)
LEMMA PushEachIsTaskList ==
    ASSUME NEW S, NEW l \in ListOver(S), NEW from \in ListOver(S), NEW X \in SUBSET from.items,
           IsTaskList(l), IsTaskList(from), X \cap l.items = {}
    PROVE  /\ ListPushEach(l, from, X) \in ListOver(S)
           /\ IsTaskList(ListPushEach(l, from, X))
           /\ ListPushEach(l, from, X).items = l.items \cup X
    <1> DEFINE r == ListPushEach(l, from, X)
    <1>1. r.items = l.items \cup X
        BY DEF ListPushEach
    <1>2. \A y, z :
            <<y, z>> \in r.before <=>
                \/ <<y, z>> \in l.before
                \/ y \in X /\ z \in l.items
                \/ y \in X /\ z \in X /\ <<z, y>> \in from.before
        BY DEF ListPushEach
    <1>3. r \in ListOver(S)
        BY DEF ListPushEach, ListOver
    <1>4. \A y, z : <<y, z>> \in l.before => y \in l.items /\ z \in l.items
        BY TaskListPairs
    <1> HIDE DEF r
    <1>5. IsTaskList(r)
        <2>1. \A y \in r.items : <<y, y>> \notin r.before
            <3>1. \A y \in X : y \in from.items /\ y \notin l.items
                OBVIOUS
            <3>2. \A y : <<y, y>> \notin from.before
                BY TaskListPairs DEF IsTaskList
            <3>3. \A y : <<y, y>> \notin l.before
                BY <1>4 DEF IsTaskList
            <3> QED
                BY <1>1, <1>2, <3>1, <3>2, <3>3
        <2>2. \A y, z \in r.items : y # z => (<<y, z>> \in r.before <=> <<z, y>> \notin r.before)
            BY <1>1, <1>2, <1>4 DEF IsTaskList
        <2>3. \A w, y, z \in r.items :
                <<w, y>> \in r.before /\ <<y, z>> \in r.before => <<w, z>> \in r.before
            BY <1>1, <1>2, <1>4 DEF IsTaskList
        <2>4. \A y, z : <<y, z>> \in r.before => y \in r.items /\ z \in r.items
            BY <1>1, <1>2, <1>4
        <2> QED
            BY <1>3, <2>1, <2>2, <2>3, <2>4, TaskListByPairs
    <1> QED
        BY <1>1, <1>3, <1>5 DEF r
-----------------------------------------------------------------------------
(* The list l holds exactly the tasks that are in state s. *)
Links(l, s, st) ==
    /\ l \in ListOver(Task)
    /\ IsTaskList(l)
    /\ l.items = {t \in Task : st[t] = s}

(* r is at the tail of l. *)
IsTail(l, r) == \A t \in l.items \ {r} : <<t, r>> \in l.before

(* scheduler_did_change_task_state keeps each list in step. *)
LEMMA ListAfterLinks ==
    ASSUME NEW l, NEW s, NEW st \in [Task -> TaskState], NEW x \in Task, NEW new,
           Links(l, s, st)
    PROVE  Links(ListAfter(l, s, x, st[x], new), s, [st EXCEPT ![x] = new])
    <1> DEFINE st2 == [st EXCEPT ![x] = new]
               m == ListAfter(l, s, x, st[x], new)
    <1>1. CASE st[x] = new
        <2>1. m = l /\ st2 = st
            BY <1>1 DEF ListAfter
        <2> QED
            BY <2>1
    <1>2. CASE st[x] # new /\ st[x] = s
        <2>1. m = ListRemoveAll(l, {x})
            BY <1>2 DEF ListAfter, ListRemove
        <2>2. l.items \ {x} = {t \in Task : st2[t] = s}
            BY <1>2 DEF Links
        <2>3. m \in ListOver(Task) /\ IsTaskList(m) /\ m.items = l.items \ {x}
            BY <2>1, RemoveIsTaskList DEF Links
        <2> QED
            BY <2>2, <2>3 DEF Links
    <1>3. CASE st[x] # new /\ st[x] # s /\ new = s
        <2>1. m = ListPush(l, x)
            BY <1>3 DEF ListAfter
        <2>2. x \notin l.items
            BY <1>3 DEF Links
        <2>3. l.items \cup {x} = {t \in Task : st2[t] = s}
            BY <1>3 DEF Links
        <2>4. m \in ListOver(Task) /\ IsTaskList(m) /\ m.items = l.items \cup {x}
            BY <2>1, <2>2, PushIsTaskList DEF Links
        <2> QED
            BY <2>3, <2>4 DEF Links
    <1>4. CASE st[x] # new /\ st[x] # s /\ new # s
        <2>1. m = l
            BY <1>4 DEF ListAfter
        <2>2. {t \in Task : st2[t] = s} = {t \in Task : st[t] = s}
            BY <1>4
        <2> QED
            BY <2>1, <2>2 DEF Links
    <1> QED
        BY <1>1, <1>2, <1>3, <1>4

(* It leaves the tail of a list where it is, unless it moves that task. *)
LEMMA ListAfterKeepsTail ==
    ASSUME NEW l, NEW s, NEW st \in [Task -> TaskState], NEW x \in Task, NEW new,
           NEW r \in Task \ {x}, Links(l, s, st), IsTail(l, r), st[r] = s
    PROVE  IsTail(ListAfter(l, s, x, st[x], new), r)
    <1>1. CASE st[x] = new \/ (st[x] # s /\ new # s)
        BY <1>1 DEF ListAfter
    <1>2. CASE st[x] # new /\ st[x] = s
        BY <1>2, RemoveIsTaskList DEF ListAfter, ListRemove, Links, IsTail
    <1>3. CASE st[x] # new /\ st[x] # s /\ new = s
        <2>1. x \notin l.items /\ r \in l.items
            BY <1>3 DEF Links
        <2> QED
            BY <1>3, <2>1, PushIsTaskList DEF ListAfter, Links, IsTail
    <1> QED
        BY <1>1, <1>2, <1>3

(* What schedule() does: it wakes up every blocked task that can be        *)
(* unblocked or has timed out, and executes one of the runnable tasks.     *)
LEMMA ScheduleEffect ==
    ASSUME NEW st \in [Task -> TaskState], NEW bk \in [Task -> Blocker], NEW rl, NEW bl,
           NEW ex \in [Task -> ExitValue \cup {NoValue}],
           Links(rl, "running", st), Links(bl, "blocked", st),
           Schedule(st, rl, bl, bk, ex)
    PROVE  /\ state' \in [Task -> TaskState]
           /\ blocker' \in [Task -> Blocker]
           /\ Links(runList', "running", state')
           /\ Links(blockList', "blocked", state')
           /\ \/ running' = Idle
              \/ running' \in Task /\ state'[running'] = "running" /\ IsTail(runList', running')
           /\ ifl' = saved'[running']
           /\ machine' \in {machine, "corrupt"}
           /\ machine' # machine =>
                  \E t \in Task : st[t] = "blocked" /\ bk[t].kind = "wait" /\ bk[t].target \in freed
           /\ \A t \in Task :
                  \/ state'[t] = st[t] /\ blocker'[t] = bk[t]
                     /\ (st[t] = "blocked" => ~CanUnblock(st, bk[t]))
                  \/ /\ st[t] = "blocked" /\ state'[t] = "running"
                     /\ blocker'[t].result # "none" /\ blocker'[t].kind = bk[t].kind
                     /\ blocker'[t].target = bk[t].target /\ blocker'[t].ret = bk[t].ret
    <1> DEFINE woken == {t \in bl.items : CanUnblock(st, bk[t]) \/ TimedOut(bk[t])}
               queue == ListPushEach(rl, bl, woken)
    <1>1. woken \subseteq bl.items /\ bl.items \subseteq Task
        BY DEF Links, ListOver
    <1>2. /\ state' = [t \in Task |-> IF t \in woken THEN "running" ELSE st[t]]
          /\ blocker' = [t \in Task |-> IF t \in woken THEN Woken(st, ex, bk[t]) ELSE bk[t]]
          /\ blockList' = ListRemoveAll(bl, woken)
          /\ \/ queue.items = {} /\ running' = Idle /\ runList' = queue
             \/ \E h \in ListHeads(queue) : running' = h /\ runList' = ListRotate(queue, h)
          /\ ifl' = saved'[running']
          /\ machine' = IF \E t \in bl.items : bk[t].kind = "wait" /\ bk[t].target \in freed
                        THEN "corrupt" ELSE machine
        BY DEF Schedule
    <1>3. \A t \in Task : t \in bl.items <=> st[t] = "blocked"
        BY DEF Links
    <1>4. \A t \in Task : t \in rl.items <=> st[t] = "running"
        BY DEF Links
    <1>5. \A t \in woken : Woken(st, ex, bk[t]) \in Blocker
              /\ Woken(st, ex, bk[t]).result # "none" /\ Woken(st, ex, bk[t]).kind = bk[t].kind
              /\ Woken(st, ex, bk[t]).target = bk[t].target /\ Woken(st, ex, bk[t]).ret = bk[t].ret
        <2> TAKE t \in woken
        <2>1. bk[t] \in Blocker
            BY <1>1
        <2>2. CanUnblock(st, bk[t]) /\ bk[t].kind = "wait" => ex[bk[t].target] \in ExitValue \cup {NoValue}
            BY <2>1 DEF CanUnblock
        <2> QED
            BY <2>1, <2>2 DEF Woken, Blocker
    <1>6. woken \cap rl.items = {}
        BY <1>1, <1>3, <1>4
    <1>7. /\ queue \in ListOver(Task)
          /\ IsTaskList(queue)
          /\ queue.items = rl.items \cup woken
        <2> HIDE DEF woken
        <2> QED
            BY <1>1, <1>6, PushEachIsTaskList DEF Links
    <1>8. \A t \in Task : t \notin woken /\ st[t] = "blocked" => ~CanUnblock(st, bk[t])
        BY <1>3
    <1> HIDE DEF woken, queue
    <1>9. state' \in [Task -> TaskState] /\ blocker' \in [Task -> Blocker]
        BY <1>1, <1>2, <1>5 DEF TaskState
    <1>10. \A t \in Task : state'[t] = "running" <=> t \in queue.items
        BY <1>1, <1>2, <1>3, <1>4, <1>7
    <1>11. \A t \in Task : state'[t] = "blocked" <=> t \in bl.items \ woken
        BY <1>1, <1>2, <1>3
    <1>12. Links(blockList', "blocked", state')
        <2>1. blockList' \in ListOver(Task) /\ IsTaskList(blockList') /\ blockList'.items = bl.items \ woken
            BY <1>2, RemoveIsTaskList DEF Links
        <2>2. bl.items \ woken = {t \in Task : state'[t] = "blocked"}
            BY <1>1, <1>11
        <2> QED
            BY <2>1, <2>2 DEF Links
    <1>13. queue.items = {t \in Task : state'[t] = "running"}
        BY <1>7, <1>10 DEF ListOver
    <1>14. /\ Links(runList', "running", state')
           /\ \/ running' = Idle
              \/ running' \in Task /\ state'[running'] = "running" /\ IsTail(runList', running')
        <2>1. CASE queue.items = {} /\ running' = Idle /\ runList' = queue
            BY <1>7, <1>13, <2>1 DEF Links
        <2>2. CASE \E h \in ListHeads(queue) : running' = h /\ runList' = ListRotate(queue, h)
            <3>1. PICK h \in ListHeads(queue) : running' = h /\ runList' = ListRotate(queue, h)
                BY <2>2
            <3>2. h \in queue.items /\ h \in Task
                BY <1>7 DEF ListHeads, ListOver
            <3>3. /\ runList' \in ListOver(Task)
                  /\ IsTaskList(runList')
                  /\ runList'.items = queue.items
                  /\ \A y \in queue.items \ {h} : <<y, h>> \in runList'.before
                BY <1>7, <3>1, RotateIsTaskList
            <3> QED
                BY <1>10, <1>13, <3>1, <3>2, <3>3 DEF Links, IsTail
        <2> QED
            BY <1>2, <2>1, <2>2
    <1>15. /\ machine' \in {machine, "corrupt"}
           /\ machine' # machine =>
                  \E t \in Task : st[t] = "blocked" /\ bk[t].kind = "wait" /\ bk[t].target \in freed
        BY <1>1, <1>2, <1>3
    <1>16. ASSUME NEW t \in Task
           PROVE  \/ state'[t] = st[t] /\ blocker'[t] = bk[t]
                     /\ (st[t] = "blocked" => ~CanUnblock(st, bk[t]))
                  \/ /\ st[t] = "blocked" /\ state'[t] = "running"
                     /\ blocker'[t].result # "none" /\ blocker'[t].kind = bk[t].kind
                     /\ blocker'[t].target = bk[t].target /\ blocker'[t].ret = bk[t].ret
        <2>1. CASE t \in woken
            BY <1>1, <1>2, <1>3, <1>5, <2>1
        <2>2. CASE t \notin woken
            BY <1>2, <1>8, <2>2
        <2> QED
            BY <2>1, <2>2
    <1> QED
        BY <1>2, <1>9, <1>12, <1>14, <1>15, <1>16
-----------------------------------------------------------------------------
(* The identifiers of the tasks, and the empty blocker. *)
LEMMA Constants ==
    /\ Idle \in Task /\ System \in Task /\ Gc \in Task
    /\ Idle # System /\ Idle # Gc /\ System # Gc
    /\ User \subseteq Task
    /\ \A t \in Task : t \in User <=> t \notin {Idle, System, Gc}
    /\ \A t \in Task : t \in Nat
    /\ NoTask \notin Task
    /\ NoBlocker \in Blocker
    BY SchedulerAssumption DEF Idle, System, Gc, Task, User, NoBlocker, Blocker, Forever

(* The task that executes code of the kernel, or makes a system call, is   *)
(* runnable and at the tail of the run list.                               *)
LEMMA RunningTask ==
    ASSUME IInv, NEW t \in Task, NEW l, At(t, l), l # "parked", t # Idle
    PROVE  /\ state[t] = "running" /\ t \notin freed
           /\ IsTail(runList, t)
           /\ t < nextId
    BY Constants DEF IInv, At, RunningIsRunnable, FreedIsGone, IsTail, UnusedIds, TypeOK

(* The two lists, as the lemmas want them. *)
LEMMA BothLink ==
    ASSUME IInv
    PROVE  Links(runList, "running", state) /\ Links(blockList, "blocked", state)
    BY DEF IInv, TypeOK, ListsMatchStates, Links

(* A task that is not running changes its state, or the running one blocks. *)
LEMMA MoveEffect ==
    ASSUME IInv, NEW x \in Task, NEW new \in TaskState, x # running \/ new = "blocked",
           state' = [state EXCEPT ![x] = new],
           runList' = RunListAfter(x, new), blockList' = BlockListAfter(x, new),
           running' = running
    PROVE  /\ state' \in [Task -> TaskState]
           /\ Links(runList', "running", state') /\ Links(blockList', "blocked", state')
           /\ ListsMatchStates'
           /\ x # running /\ state[running] = "running" /\ IsTail(runList, running) =>
                  state'[running] = "running" /\ IsTail(runList', running)
    <1>1. state \in [Task -> TaskState] /\ running \in Task
        BY DEF IInv, TypeOK
    <1>2. state' \in [Task -> TaskState]
        BY <1>1
    <1>3. Links(runList', "running", state')
        BY <1>1, BothLink, ListAfterLinks DEF RunListAfter
    <1>4. Links(blockList', "blocked", state')
        BY <1>1, BothLink, ListAfterLinks DEF BlockListAfter
    <1>5. ListsMatchStates'
        BY <1>3, <1>4 DEF ListsMatchStates, Links
    <1>6. x # running /\ state[running] = "running" /\ IsTail(runList, running) =>
              state'[running] = "running" /\ IsTail(runList', running)
        BY <1>1, BothLink, ListAfterKeepsTail DEF RunListAfter
    <1> QED
        BY <1>2, <1>3, <1>4, <1>5, <1>6

(* The end of task_block. *)
LEMMA ResumeStep ==
    ASSUME IInv, NEW t \in Task, Resume(t)
    PROVE  IInv'
    <1> USE Constants
    <1>1. /\ At(t, "yielded") /\ machine = "up" /\ running = t /\ t # Idle
          /\ state[t] = "running" /\ t \notin freed /\ pc[t] = "yielded"
        BY RunningTask DEF Resume, At, IInv, KernelTasks
    <1>2. /\ blocker[t].ret \in {"run", "load", "iterate"}
          /\ blocker[t].ret = "iterate" => t = Gc
        BY DEF IInv, TypeOK, SweeperIsGc, Blocker
    <1>3. /\ blocker' = [blocker EXCEPT ![t] = NoBlocker]
          /\ pc' = [pc EXCEPT ![t] = blocker[t].ret]
          /\ blocker[t].kind = "wait" => depth' = depth - 1 /\ held' = held \ {<<t, "task_wait">>}
          /\ blocker[t].kind # "wait" => depth' = depth /\ held' = held
          /\ ifl' = IF blocker[t].ret = "run" THEN AtReturn(t, depth') ELSE ifl
          /\ machine' \in {"up", "panic"}
          /\ UNCHANGED <<state, nextId, tasks, freed, listVars, running, child, exit, histVars,
                         saved, ready>>
        BY <1>1 DEF Resume
    <1>4. TypeOK'
        <2>1. ifl' \in BOOLEAN
            BY <1>3 DEF IInv, TypeOK, AtReturn, AfterRelease
        <2>2. depth' \in Int /\ held' \subseteq Task \X Frame
            BY <1>3 DEF IInv, TypeOK
        <2>3. pc' \in [Task -> Location] /\ blocker' \in [Task -> Blocker]
            BY <1>2, <1>3 DEF IInv, TypeOK, Location
        <2> QED
            BY <1>3, <2>1, <2>2, <2>3 DEF IInv, TypeOK, listVars, histVars
    <1>5. ListsMatchStates'
        BY <1>3 DEF IInv, ListsMatchStates, listVars
    <1>6. RunningIsRunnable'
        BY <1>1, <1>2, <1>3 DEF IInv, TypeOK, RunningIsRunnable, listVars
    <1>7. KernelTasks'
        BY <1>1, <1>3 DEF IInv, TypeOK, KernelTasks
    <1>8. UnusedIds'
        BY <1>1, <1>3 DEF IInv, TypeOK, UnusedIds, NoBlocker
    <1>9. BlockedOrWoken'
        BY <1>1, <1>2, <1>3 DEF IInv, TypeOK, BlockedOrWoken, NoBlocker
    <1>10. LaunchedOnce'
        BY <1>1, <1>2, <1>3 DEF IInv, TypeOK, LaunchedOnce, Loading, NoBlocker
    <1>11. SweeperIsGc'
        BY <1>1, <1>2, <1>3 DEF IInv, TypeOK, SweeperIsGc, NoBlocker
    <1>12. RetainAccounting'
        <2>1. blocker[t].kind = "wait" => <<t, "task_wait">> \in held
            BY <1>1 DEF IInv, HeldFrames
        <2>2. IsFiniteSet(held) /\ depth = Cardinality(held)
            BY DEF IInv, HeldFrames, RetainAccounting
        <2> QED
            BY <1>3, <2>1, <2>2, FS_RemoveElement DEF RetainAccounting
    <1>13. HeldFrames'
        <2>1. IsFiniteSet(held')
            BY <1>3, FS_RemoveElement DEF IInv, HeldFrames
        <2> QED
            BY <1>1, <1>2, <1>3, <2>1 DEF IInv, TypeOK, HeldFrames, Frame
    <1>14. SweepNotPreempted'
        BY <1>1, <1>2, <1>3 DEF IInv, TypeOK, SweepNotPreempted
    <1>15. FreedIsGone'
        BY <1>1, <1>3 DEF IInv, TypeOK, FreedIsGone
    <1>16. CanceledHasNoWaiter'
        BY <1>1, <1>3 DEF IInv, TypeOK, CanceledHasNoWaiter, NoBlocker
    <1>17. LaunchedIsUnknown'
        BY <1>1, <1>2, <1>3 DEF IInv, TypeOK, LaunchedIsUnknown, Loading, NoBlocker, histVars
    <1>18. NoUseAfterFree'
        BY <1>1, <1>3 DEF IInv, TypeOK, NoUseAfterFree, NoBlocker, histVars
    <1> QED
        BY <1>4, <1>5, <1>6, <1>7, <1>8, <1>9, <1>10, <1>11, <1>12, <1>13, <1>14, <1>15, <1>16,
           <1>17, <1>18 DEF IInv
(* A step that changes at most the interrupt flag, what is ready, or stops *)
(* the machine.                                                            *)
LEMMA QuietStep ==
    ASSUME IInv,
           UNCHANGED <<state, nextId, tasks, freed, listVars, running, pc, blocker, child, exit,
                       first, depth, held, saved>>, late' \in [Task -> Answer],
           guessed => guessed', guessed' \in BOOLEAN, ready' \in BOOLEAN, ifl' \in BOOLEAN,
           ifl' = ifl \/ pc[Gc] # "sweep",
           machine' = machine \/ (machine = "up" /\ machine' = "panic")
    PROVE  IInv'
    <1> USE Constants
    <1>1. TypeOK'
        BY DEF IInv, TypeOK, listVars, histVars, irqVars
    <1>2. ListsMatchStates'
        BY DEF IInv, TypeOK, ListsMatchStates, listVars
    <1>3. RunningIsRunnable'
        BY DEF IInv, TypeOK, RunningIsRunnable, listVars
    <1>4. KernelTasks'
        BY DEF IInv, TypeOK, KernelTasks
    <1>5. UnusedIds'
        BY DEF IInv, TypeOK, UnusedIds
    <1>6. BlockedOrWoken'
        BY DEF IInv, TypeOK, BlockedOrWoken
    <1>7. LaunchedOnce'
        BY DEF IInv, TypeOK, LaunchedOnce, Loading
    <1>8. SweeperIsGc'
        BY DEF IInv, TypeOK, SweeperIsGc
    <1>9. RetainAccounting'
        BY DEF IInv, TypeOK, RetainAccounting
    <1>10. HeldFrames'
        BY DEF IInv, TypeOK, HeldFrames, Frame
    <1>11. SweepNotPreempted'
        BY DEF IInv, TypeOK, SweepNotPreempted
    <1>12. FreedIsGone'
        BY DEF IInv, TypeOK, FreedIsGone
    <1>13. CanceledHasNoWaiter'
        BY DEF IInv, TypeOK, CanceledHasNoWaiter
    <1>14. LaunchedIsUnknown'
        BY DEF IInv, TypeOK, LaunchedIsUnknown, Loading, histVars
    <1>15. NoUseAfterFree'
        BY DEF IInv, TypeOK, NoUseAfterFree, histVars
    <1> QED
        BY <1>1, <1>2, <1>3, <1>4, <1>5, <1>6, <1>7, <1>8, <1>9, <1>10, <1>11, <1>12, <1>13,
           <1>14, <1>15 DEF IInv

(* A task blocks in task_block. *)
LEMMA ParkStep ==
    ASSUME IInv, NEW t \in Task, t # Idle, NEW l \in {"run", "load"}, At(t, l),
           NEW b \in Blocker, NEW d, Park(t, b, d), b.result = "none",
           b.ret = "load" => l = "load",
           b.ret = "iterate" => t = Gc,
           b.kind = "wait" =>
               /\ b.target \in tasks /\ state[b.target] # "canceled"
               /\ guessed' = (guessed \/ BeingLaunched(b.target))
               /\ depth' = depth + 1 /\ held' = held \cup {<<t, "task_wait">>},
           b.kind # "wait" => UNCHANGED <<guessed, depth, held>>,
           machine' = machine
    PROVE  IInv'
    <1> USE Constants
    <1>1. /\ machine = "up" /\ running = t /\ pc[t] = l
          /\ state[t] = "running" /\ t \notin freed /\ t < nextId
        BY RunningTask DEF At
    <1>2. /\ state' = [state EXCEPT ![t] = "blocked"]
          /\ runList' = RunListAfter(t, "blocked")
          /\ blockList' = BlockListAfter(t, "blocked")
          /\ blocker' = [blocker EXCEPT ![t] = b]
          /\ pc' = [pc EXCEPT ![t] = "parked"]
          /\ ifl' = AfterRelease(d)
          /\ UNCHANGED <<nextId, tasks, freed, running, child, exit, first, late, saved, ready>>
        BY DEF Park
    <1>3. /\ state' \in [Task -> TaskState] /\ ListsMatchStates'
          /\ runList' \in ListOver(Task) /\ blockList' \in ListOver(Task)
        BY <1>1, <1>2, MoveEffect DEF TaskState, Links
    <1>4. b.kind = "wait" => b.target \in Task /\ b.target < nextId /\ b.target \notin freed
        <2> SUFFICES ASSUME b.kind = "wait"
                     PROVE  b.target \in Task /\ b.target < nextId /\ b.target \notin freed
            OBVIOUS
        <2>1. b.target \in tasks /\ b.target \in Task
            BY DEF IInv, TypeOK
        <2>2. ~(b.target >= nextId)
            BY <2>1 DEF IInv, UnusedIds
        <2>3. b.target \in Nat /\ nextId \in Nat
            BY <2>1 DEF IInv, TypeOK
        <2>4. b.target \notin freed
            BY <2>1 DEF IInv, FreedIsGone
        <2> QED
            BY <2>1, <2>2, <2>3, <2>4
    <1>5. TypeOK'
        <2>1. ifl' \in BOOLEAN
            BY <1>2 DEF AfterRelease
        <2>2. depth' \in Int /\ held' \subseteq Task \X Frame
            BY DEF IInv, TypeOK, Frame
        <2>3. pc' \in [Task -> Location] /\ blocker' \in [Task -> Blocker]
            BY <1>2 DEF IInv, TypeOK, Location
        <2>4. guessed' \in BOOLEAN
            BY DEF IInv, TypeOK, BeingLaunched
        <2> QED
            BY <1>2, <1>3, <2>1, <2>2, <2>3, <2>4 DEF IInv, TypeOK
    <1>6. ListsMatchStates'
        BY <1>3
    <1>7. RunningIsRunnable'
        BY <1>1, <1>2 DEF IInv, TypeOK, RunningIsRunnable, listVars
    <1>8. KernelTasks'
        BY <1>1, <1>2 DEF IInv, TypeOK, KernelTasks
    <1>9. UnusedIds'
        BY <1>1, <1>2, <1>4 DEF IInv, TypeOK, UnusedIds
    <1>10. BlockedOrWoken'
        BY <1>1, <1>2 DEF IInv, TypeOK, BlockedOrWoken
    <1>11. LaunchedOnce'
        BY <1>1, <1>2 DEF IInv, TypeOK, LaunchedOnce, Loading
    <1>12. SweeperIsGc'
        BY <1>1, <1>2 DEF IInv, TypeOK, SweeperIsGc
    <1>13. RetainAccounting'
        <2>1. <<t, "task_wait">> \notin held
            BY <1>1 DEF IInv, TypeOK, HeldFrames, Frame
        <2>2. IsFiniteSet(held) /\ depth = Cardinality(held)
            BY DEF IInv, HeldFrames, RetainAccounting
        <2> QED
            BY <2>1, <2>2, FS_AddElement DEF RetainAccounting
    <1>14. HeldFrames'
        <2>1. held' = held \/ held' = held \cup {<<t, "task_wait">>}
            OBVIOUS
        <2>2. IsFiniteSet(held)
            BY DEF IInv, HeldFrames
        <2>3. IsFiniteSet(held \cup {<<t, "task_wait">>})
            BY <2>2, FS_AddElement
        <2>4. IsFiniteSet(held')
            BY <2>1, <2>2, <2>3
        <2> QED
            BY <1>1, <1>2, <2>4 DEF IInv, TypeOK, HeldFrames, Frame
    <1>15. SweepNotPreempted'
        BY <1>1, <1>2 DEF IInv, TypeOK, SweepNotPreempted
    <1>16. FreedIsGone'
        BY <1>1, <1>2 DEF IInv, TypeOK, FreedIsGone
    <1>17. CanceledHasNoWaiter'
        BY <1>1, <1>2 DEF IInv, TypeOK, CanceledHasNoWaiter
    <1>18. LaunchedIsUnknown'
        <2> SUFFICES ASSUME ~guessed', NEW u \in Task, Loading(u)'
                     PROVE  /\ state'[child[u]] = "none" /\ child[u] \in tasks
                            /\ \A v \in Task : blocker'[v].kind = "wait" =>
                                   blocker'[v].target # child[u]
            BY <1>2 DEF LaunchedIsUnknown
        <2>1. ~guessed /\ Loading(u)
            BY <1>1, <1>2 DEF IInv, TypeOK, Loading
        <2>2. b.kind = "wait" => child[u] # b.target
            BY <1>4, <2>1, <1>1 DEF BeingLaunched, Loading
        <2>3. child[u] \in Task /\ child[u] # t
            BY <1>1, <2>1 DEF IInv, TypeOK, LaunchedOnce
        <2> QED
            BY <1>1, <1>2, <2>1, <2>2, <2>3 DEF IInv, TypeOK, LaunchedIsUnknown
    <1>19. NoUseAfterFree'
        BY <1>1, <1>2, <1>4 DEF IInv, TypeOK, NoUseAfterFree
    <1> QED
        BY <1>5, <1>6, <1>7, <1>8, <1>9, <1>10, <1>11, <1>12, <1>13, <1>14, <1>15, <1>16,
           <1>17, <1>18, <1>19 DEF IInv

(* task_sleep. *)
LEMMA SleepStep ==
    ASSUME IInv, NEW t \in User, NEW d \in Delay, Sleep(t, d)
    PROVE  IInv'
    <1>1. TimeBlocker(d, "run") \in Blocker /\ TimeBlocker(d, "run").result = "none"
          /\ TimeBlocker(d, "run").kind = "time"
          /\ TimeBlocker(d, "run").ret = "run"
        BY SchedulerAssumption DEF TimeBlocker, NoBlocker, Blocker
    <1>2. t \in Task /\ t # Idle /\ At(t, "run")
        BY Constants DEF Sleep, Calling
    <1>3. Park(t, TimeBlocker(d, "run"), depth) /\ UNCHANGED <<depth, held, guessed, machine>>
        BY DEF Sleep
    <1> QED
        BY <1>1, <1>2, <1>3, ParkStep

(* task_fshandle_poll. *)
LEMMA PollStep ==
    ASSUME IInv, NEW t \in User, NEW d \in Delay \cup {Forever}, Poll(t, d)
    PROVE  IInv'
    <1>1. SelectBlocker(d) \in Blocker /\ SelectBlocker(d).result = "none"
          /\ SelectBlocker(d).kind = "select"
          /\ SelectBlocker(d).ret = "run"
        BY SchedulerAssumption DEF SelectBlocker, NoBlocker, Blocker
    <1>2. t \in Task /\ t # Idle /\ At(t, "run")
        BY Constants DEF Poll, Calling
    <1>3. Park(t, SelectBlocker(d), depth) /\ UNCHANGED <<depth, held, guessed, machine>>
        BY DEF Poll
    <1> QED
        BY <1>1, <1>2, <1>3, ParkStep

(* A read of the executable that blocks. *)
LEMMA LoadBlocksStep ==
    ASSUME IInv, NEW t \in Task, LoadBlocks(t)
    PROVE  IInv'
    <1>1. ReadBlocker("load") \in Blocker /\ ReadBlocker("load").result = "none"
          /\ ReadBlocker("load").kind = "read"
          /\ ReadBlocker("load").ret = "load"
        BY SchedulerAssumption DEF ReadBlocker, NoBlocker, Blocker
    <1>2. t # Idle /\ At(t, "load")
        BY DEF LoadBlocks, At, IInv, KernelTasks
    <1>3. Park(t, ReadBlocker("load"), depth) /\ UNCHANGED <<depth, held, guessed, machine>>
        BY DEF LoadBlocks
    <1> QED
        BY <1>1, <1>2, <1>3, ParkStep

(* The collector sleeps. *)
LEMMA GcSleepStep ==
    ASSUME IInv, GcSleep
    PROVE  IInv'
    <1> DEFINE b == TimeBlocker(GcPeriod, "iterate")
    <1>1. b \in Blocker /\ b.result = "none" /\ b.kind = "time"
          /\ b.ret = "iterate"
        BY SchedulerAssumption DEF TimeBlocker, NoBlocker, Blocker
    <1>2. Gc \in Task /\ Gc # Idle /\ At(Gc, "run")
        BY Constants DEF GcSleep
    <1>3. Park(Gc, b, depth) /\ UNCHANGED <<depth, held, guessed, machine>>
        BY DEF GcSleep
    <1> HIDE DEF b
    <1> QED
        BY <1>1, <1>2, <1>3, ParkStep

(* task_wait, whether it blocks or not. *)
LEMMA WaitStep ==
    ASSUME IInv, NEW t \in Task, NEW x \in Task, Wait(t, x)
    PROVE  IInv'
    <1>1. t # Idle /\ At(t, "run") /\ x \in tasks
        BY Constants DEF Wait, Calling
    <1>2. machine = "up" /\ running = t /\ pc[t] = "run"
        BY <1>1 DEF At
    <1>3. guessed' = (guessed \/ BeingLaunched(x)) /\ guessed' \in BOOLEAN
        BY DEF Wait, IInv, TypeOK, BeingLaunched
    <1>4. CASE state[x] = "canceled"
        <2>0. [of |-> x, value |-> exit[x]] \in Answer
            BY DEF IInv, TypeOK, Answer
        <2>1. /\ machine' = machine \/ machine' = "panic"
              /\ ifl' \in BOOLEAN /\ ready' \in BOOLEAN
              /\ UNCHANGED <<state, nextId, tasks, freed, listVars, running, pc, blocker, child,
                             exit, first, depth, held, saved>>
              /\ late' \in [Task -> Answer]
            BY <1>4, <2>0 DEF Wait, AtReturn, AfterRelease, IInv, TypeOK
        <2>2. pc[Gc] # "sweep"
            BY <1>2, Constants DEF IInv, SweepNotPreempted
        <2> QED
            BY <1>2, <1>3, <2>1, <2>2, QuietStep
    <1>5. CASE state[x] # "canceled"
        <2>1. /\ WaitBlocker(x) \in Blocker /\ WaitBlocker(x).result = "none"
              /\ WaitBlocker(x).kind = "wait" /\ WaitBlocker(x).target = x
              /\ WaitBlocker(x).ret = "run"
            BY Constants DEF WaitBlocker, NoBlocker, Blocker
        <2>2. /\ Park(t, WaitBlocker(x), depth + 1) /\ machine' = machine
              /\ depth' = depth + 1 /\ held' = held \cup {<<t, "task_wait">>}
            BY <1>5 DEF Wait
        <2> QED
            BY <1>1, <1>3, <1>5, <2>1, <2>2, ParkStep
    <1> QED
        BY <1>4, <1>5

(* The steps that change no task. *)
LEMMA QuietSteps ==
    ASSUME IInv, WaitForGoneInit \/ BecomeReady \/ (\E t \in User : Consume(t)) \/ UNCHANGED vars
    PROVE  IInv'
    <1>1. /\ UNCHANGED <<state, nextId, tasks, freed, listVars, running, pc, blocker, child, exit,
                         first, depth, held, ifl, saved, guessed>>
          /\ ready' \in BOOLEAN /\ late' \in [Task -> Answer]
          /\ machine' = machine \/ (machine = "up" /\ machine' = "panic")
        BY DEF WaitForGoneInit, BecomeReady, Consume, Stopped, vars, At, histVars, irqVars, listVars,
               IInv, TypeOK
    <1>2. ifl \in BOOLEAN /\ guessed \in BOOLEAN
        BY DEF IInv, TypeOK
    <1> QED
        BY <1>1, <1>2, QuietStep

(* The next identifier belongs to no task yet. *)
LEMMA NewIsUser ==
    ASSUME IInv, nextId \in Task
    PROVE  /\ nextId \in User
           /\ state[nextId] = "none" /\ pc[nextId] = "run"
           /\ nextId \notin tasks /\ nextId \notin freed
    <1>1. nextId \in Nat /\ nextId >= nextId /\ nextId >= 3
        BY DEF IInv, TypeOK, UnusedIds
    <1> QED
        BY <1>1 DEF IInv, UnusedIds, Task, User

(* task_launch links a new task. *)
LEMMA LaunchBeginStep ==
    ASSUME IInv, NEW t \in Task, NEW x \in Task, LaunchBegin(t, x)
    PROVE  IInv'
    <1> USE Constants
    <1>1. t # Idle /\ At(t, "run")
        BY DEF LaunchBegin, Calling
    <1>2. /\ machine = "up" /\ running = t /\ pc[t] = "run"
          /\ state[t] = "running" /\ t \notin freed /\ t < nextId
        BY <1>1, RunningTask DEF At
    <1>3. /\ x = nextId /\ x \in User /\ x # t
          /\ state[x] = "none" /\ pc[x] = "run" /\ x \notin tasks /\ x \notin freed
        BY <1>2, NewIsUser DEF LaunchBegin, TakeId
    <1>4. /\ nextId' = x + 1
          /\ tasks' = tasks \cup {x}
          /\ child' = [child EXCEPT ![t] = x]
          /\ pc' = [pc EXCEPT ![t] = "load"]
          /\ ifl' \in BOOLEAN
          /\ UNCHANGED <<state, freed, runList, blockList, running, blocker, exit, first, late, guessed,
                         depth, held, saved, ready, machine>>
        BY DEF LaunchBegin, TakeId, AfterRelease, listVars, histVars
    <1>5. TypeOK'
        BY <1>2, <1>3, <1>4 DEF IInv, TypeOK, listVars, histVars, irqVars, Location
    <1>6. ListsMatchStates'
        BY <1>2, <1>3, <1>4 DEF IInv, TypeOK, ListsMatchStates, listVars
    <1>7. RunningIsRunnable'
        BY <1>2, <1>3, <1>4 DEF IInv, TypeOK, RunningIsRunnable, listVars
    <1>8. KernelTasks'
        BY <1>2, <1>3, <1>4 DEF IInv, TypeOK, KernelTasks
    <1>9. UnusedIds'
        <2>1. nextId \in Nat /\ nextId >= 3 /\ nextId' = nextId + 1 /\ nextId' >= 3 /\ t \in Nat
            BY <1>4, <1>3 DEF IInv, TypeOK, UnusedIds
        <2>2. \A y \in Task : (y >= nextId' => y >= nextId /\ y # x) /\ (y < nextId => y < nextId')
            BY <1>3, <2>1
        <2>3. x < nextId' /\ t < nextId'
            BY <1>2, <1>3, <2>1
        <2>4. \A y \in Task : y >= nextId' =>
                  state'[y] = "none" /\ pc'[y] = "run" /\ y \notin tasks' /\ y \notin freed'
            <3> TAKE y \in Task
            <3> HAVE y >= nextId'
            <3>1. y >= nextId /\ y # x /\ y # t
                BY <1>2, <2>1, <2>2
            <3>2. state[y] = "none" /\ pc[y] = "run" /\ y \notin tasks /\ y \notin freed
                BY <3>1 DEF IInv, UnusedIds
            <3> QED
                BY <1>4, <3>1, <3>2 DEF IInv, TypeOK
        <2>5. \A u \in Task : child'[u] # NoTask => child'[u] < nextId'
            BY <1>3, <1>4, <2>2, <2>3 DEF IInv, TypeOK, UnusedIds
        <2>6. \A u \in Task : blocker'[u].kind = "wait" =>
                  blocker'[u].target \in Task /\ blocker'[u].target < nextId'
            BY <1>4, <2>2 DEF IInv, UnusedIds
        <2> QED
            BY <2>1, <2>4, <2>5, <2>6 DEF UnusedIds
    <1>10. BlockedOrWoken'
        BY <1>2, <1>3, <1>4 DEF IInv, TypeOK, BlockedOrWoken
    <1>11. LaunchedOnce'
        <2> SUFFICES ASSUME NEW u \in Task, Loading(u)'
                     PROVE  /\ child'[u] \in User
                            /\ state'[child'[u]] \in {"none", "canceled"}
                            /\ pc'[child'[u]] = "run"
                            /\ \A v \in Task : Loading(v)' /\ child'[v] = child'[u] => v = u
            BY DEF LaunchedOnce
        <2>1. \A v \in Task : Loading(v)' => Loading(v) \/ v = t
            BY <1>2, <1>3, <1>4 DEF IInv, TypeOK, Loading
        <2>2. \A v \in Task : Loading(v) =>
                  /\ child[v] \in User /\ child[v] \in Task /\ child[v] # x /\ child[v] # t
                  /\ state[child[v]] \in {"none", "canceled"} /\ pc[child[v]] = "run"
            <3> TAKE v \in Task
            <3> HAVE Loading(v)
            <3>1. child[v] \in User /\ child[v] \in Task /\ child[v] # NoTask
                BY DEF IInv, LaunchedOnce
            <3>2. child[v] < nextId
                BY <3>1 DEF IInv, UnusedIds
            <3> QED
                BY <1>2, <1>3, <3>1, <3>2 DEF IInv, TypeOK, LaunchedOnce
        <2> QED
            BY <1>2, <1>3, <1>4, <2>1, <2>2 DEF IInv, TypeOK, LaunchedOnce
    <1>12. SweeperIsGc'
        BY <1>2, <1>3, <1>4 DEF IInv, TypeOK, SweeperIsGc
    <1>13. RetainAccounting'
        BY <1>2, <1>3, <1>4 DEF IInv, TypeOK, RetainAccounting
    <1>14. HeldFrames'
        BY <1>2, <1>3, <1>4 DEF IInv, TypeOK, HeldFrames, Frame
    <1>15. SweepNotPreempted'
        BY <1>2, <1>3, <1>4 DEF IInv, TypeOK, SweepNotPreempted
    <1>16. FreedIsGone'
        BY <1>2, <1>3, <1>4 DEF IInv, TypeOK, FreedIsGone
    <1>17. CanceledHasNoWaiter'
        BY <1>2, <1>3, <1>4 DEF IInv, TypeOK, CanceledHasNoWaiter
    <1>18. LaunchedIsUnknown'
        <2>1. \A u \in Task : blocker[u].kind = "wait" => blocker[u].target # x
            <3> TAKE u \in Task
            <3> HAVE blocker[u].kind = "wait"
            <3>1. blocker[u].target \in Task /\ blocker[u].target < nextId
                BY DEF IInv, UnusedIds
            <3> QED
                BY <1>3, <3>1 DEF IInv, TypeOK
        <2>2. \A u \in Task : u # t /\ Loading(u)' => Loading(u) /\ child'[u] = child[u]
            BY <1>2, <1>4 DEF IInv, TypeOK, Loading
        <2>3. child'[t] = x
            BY <1>4 DEF IInv, TypeOK
        <2> QED
            BY <1>3, <1>4, <2>1, <2>2, <2>3 DEF IInv, LaunchedIsUnknown, histVars
    <1>19. NoUseAfterFree'
        BY <1>2, <1>3, <1>4 DEF IInv, TypeOK, NoUseAfterFree, histVars
    <1> QED
        BY <1>5, <1>6, <1>7, <1>8, <1>9, <1>10, <1>11, <1>12, <1>13, <1>14, <1>15, <1>16,
           <1>17, <1>18, <1>19 DEF IInv

(* task_launch makes the task runnable. *)
LEMMA LaunchGoStep ==
    ASSUME IInv, NEW t \in Task, LaunchGo(t)
    PROVE  IInv'
    <1> DEFINE x == child[t]
    <1> USE Constants
    <1>1. t # Idle /\ At(t, "load")
        BY DEF LaunchGo, At, IInv, KernelTasks
    <1>2. /\ machine = "up" /\ running = t /\ pc[t] = "load"
          /\ state[t] = "running" /\ t \notin freed /\ t < nextId
        BY <1>1, RunningTask DEF At
    <1>3. /\ x \in User /\ x \in Task /\ x # t /\ x < nextId
          /\ state[x] \in {"none", "canceled"} /\ pc[x] = "run"
          /\ \A u \in Task : Loading(u) /\ child[u] = x => u = t
        <2>1. Loading(t)
            BY <1>2 DEF Loading
        <2>2. x \in User /\ x # NoTask
            BY <2>1 DEF IInv, LaunchedOnce
        <2> QED
            BY <1>2, <2>1, <2>2 DEF IInv, TypeOK, LaunchedOnce, UnusedIds
    <1>4. /\ state' = [state EXCEPT ![x] = "running"]
          /\ runList' = RunListAfter(x, "running")
          /\ blockList' = BlockListAfter(x, "running")
          /\ saved' = [saved EXCEPT ![x] = TRUE]
          /\ pc' = [pc EXCEPT ![t] = "run"]
          /\ ifl' \in BOOLEAN
          /\ machine' = IF x \in freed THEN "corrupt" ELSE machine
          /\ UNCHANGED <<nextId, tasks, freed, running, blocker, child, exit, histVars, depth, held,
                         ready>>
        BY DEF LaunchGo, AtReturn, AfterRelease
    <1>5. /\ state' \in [Task -> TaskState] /\ ListsMatchStates'
          /\ runList' \in ListOver(Task) /\ blockList' \in ListOver(Task)
          /\ state'[t] = "running" /\ IsTail(runList', t)
        BY <1>1, <1>2, <1>3, <1>4, MoveEffect, RunningTask DEF TaskState, Links
    <1>6. TypeOK'
        BY <1>3, <1>4, <1>5 DEF IInv, TypeOK, Location, histVars
    <1>7. ListsMatchStates'
        BY <1>5
    <1>8. RunningIsRunnable'
        BY <1>2, <1>4, <1>5 DEF IInv, TypeOK, RunningIsRunnable, IsTail
    <1>9. KernelTasks'
        BY <1>2, <1>3, <1>4 DEF IInv, TypeOK, KernelTasks
    <1>10. UnusedIds'
        BY <1>2, <1>3, <1>4 DEF IInv, TypeOK, UnusedIds
    <1>11. BlockedOrWoken'
        BY <1>2, <1>3, <1>4 DEF IInv, TypeOK, BlockedOrWoken
    <1>12. LaunchedOnce'
        BY <1>2, <1>3, <1>4 DEF IInv, TypeOK, LaunchedOnce, Loading
    <1>13. SweeperIsGc'
        BY <1>2, <1>3, <1>4 DEF IInv, TypeOK, SweeperIsGc
    <1>14. RetainAccounting'
        BY <1>2, <1>3, <1>4 DEF IInv, TypeOK, RetainAccounting
    <1>15. HeldFrames'
        BY <1>2, <1>3, <1>4 DEF IInv, TypeOK, HeldFrames, Frame
    <1>16. SweepNotPreempted'
        BY <1>2, <1>3, <1>4 DEF IInv, TypeOK, SweepNotPreempted
    <1>17. FreedIsGone'
        BY <1>2, <1>3, <1>4 DEF IInv, TypeOK, FreedIsGone
    <1>18. CanceledHasNoWaiter'
        BY <1>2, <1>3, <1>4 DEF IInv, TypeOK, CanceledHasNoWaiter
    <1>19. LaunchedIsUnknown'
        BY <1>2, <1>3, <1>4 DEF IInv, TypeOK, LaunchedIsUnknown, Loading, histVars
    <1>20. NoUseAfterFree'
        <2>1. ~guessed => x \in tasks
            BY <1>2 DEF IInv, LaunchedIsUnknown, Loading
        <2>2. ~guessed => x \notin freed
            BY <2>1 DEF IInv, FreedIsGone
        <2> QED
            BY <1>2, <1>3, <1>4, <2>2 DEF IInv, TypeOK, NoUseAfterFree, histVars
    <1> QED
        BY <1>6, <1>7, <1>8, <1>9, <1>10, <1>11, <1>12, <1>13, <1>14, <1>15, <1>16, <1>17,
           <1>18, <1>19, <1>20 DEF IInv

(* task_clone makes a new task runnable. *)
LEMMA CloneStep ==
    ASSUME IInv, NEW t \in User, NEW x \in Task, Clone(t, x)
    PROVE  IInv'
    <1> USE Constants
    <1>1. t \in Task /\ t # Idle /\ At(t, "run")
        BY DEF Clone, Calling
    <1>2. /\ machine = "up" /\ running = t /\ pc[t] = "run"
          /\ state[t] = "running" /\ t \notin freed /\ t < nextId
        BY <1>1, RunningTask DEF At
    <1>3. /\ x = nextId /\ x \in User /\ x # t
          /\ state[x] = "none" /\ pc[x] = "run" /\ x \notin tasks /\ x \notin freed
        BY <1>2, NewIsUser DEF Clone, TakeId
    <1>4. /\ nextId' = x + 1
          /\ state' = [state EXCEPT ![x] = "running"]
          /\ runList' = RunListAfter(x, "running")
          /\ blockList' = BlockListAfter(x, "running")
          /\ saved' = [saved EXCEPT ![x] = TRUE]
          /\ ifl' = TRUE
          /\ UNCHANGED <<tasks, freed, running, pc, blocker, child, exit, histVars, depth, held,
                         ready, machine>>
        BY DEF Clone, TakeId
    <1>5. /\ state' \in [Task -> TaskState] /\ ListsMatchStates'
          /\ runList' \in ListOver(Task) /\ blockList' \in ListOver(Task)
          /\ state'[t] = "running" /\ IsTail(runList', t)
        BY <1>1, <1>2, <1>3, <1>4, MoveEffect, RunningTask DEF TaskState, Links
    <1>6. TypeOK'
        BY <1>3, <1>4, <1>5 DEF IInv, TypeOK, histVars
    <1>7. ListsMatchStates'
        BY <1>5
    <1>8. RunningIsRunnable'
        BY <1>2, <1>4, <1>5 DEF IInv, TypeOK, RunningIsRunnable, IsTail
    <1>9. KernelTasks'
        BY <1>2, <1>3, <1>4 DEF IInv, TypeOK, KernelTasks
    <1>10. UnusedIds'
        <2>1. nextId \in Nat /\ nextId >= 3 /\ nextId' = nextId + 1 /\ nextId' >= 3 /\ t \in Nat
            BY <1>4, <1>3 DEF IInv, TypeOK, UnusedIds
        <2>2. \A y \in Task : (y >= nextId' => y >= nextId /\ y # x) /\ (y < nextId => y < nextId')
            BY <1>3, <2>1
        <2>3. x < nextId' /\ t < nextId'
            BY <1>2, <1>3, <2>1
        <2>4. \A y \in Task : y >= nextId' =>
                  state'[y] = "none" /\ pc'[y] = "run" /\ y \notin tasks' /\ y \notin freed'
            <3> TAKE y \in Task
            <3> HAVE y >= nextId'
            <3>1. y >= nextId /\ y # x /\ y # t
                BY <1>2, <2>1, <2>2
            <3>2. state[y] = "none" /\ pc[y] = "run" /\ y \notin tasks /\ y \notin freed
                BY <3>1 DEF IInv, UnusedIds
            <3> QED
                BY <1>4, <3>1, <3>2 DEF IInv, TypeOK
        <2>5. \A u \in Task : child'[u] # NoTask => child'[u] < nextId'
            BY <1>3, <1>4, <2>2, <2>3 DEF IInv, TypeOK, UnusedIds
        <2>6. \A u \in Task : blocker'[u].kind = "wait" =>
                  blocker'[u].target \in Task /\ blocker'[u].target < nextId'
            BY <1>4, <2>2 DEF IInv, UnusedIds
        <2> QED
            BY <2>1, <2>4, <2>5, <2>6 DEF UnusedIds
    <1>11. BlockedOrWoken'
        BY <1>2, <1>3, <1>4 DEF IInv, TypeOK, BlockedOrWoken
    <1>12. LaunchedOnce'
        <2> SUFFICES ASSUME NEW u \in Task, Loading(u)'
                     PROVE  /\ child'[u] \in User
                            /\ state'[child'[u]] \in {"none", "canceled"}
                            /\ pc'[child'[u]] = "run"
                            /\ \A v \in Task : Loading(v)' /\ child'[v] = child'[u] => v = u
            BY DEF LaunchedOnce
        <2>1. \A v \in Task : Loading(v)' => Loading(v)
            BY <1>2, <1>3, <1>4 DEF IInv, TypeOK, Loading
        <2>2. \A v \in Task : Loading(v) =>
                  /\ child[v] \in User /\ child[v] \in Task /\ child[v] # x /\ child[v] # t
                  /\ state[child[v]] \in {"none", "canceled"} /\ pc[child[v]] = "run"
            <3> TAKE v \in Task
            <3> HAVE Loading(v)
            <3>1. child[v] \in User /\ child[v] \in Task /\ child[v] # NoTask
                BY DEF IInv, LaunchedOnce
            <3>2. child[v] < nextId
                BY <3>1 DEF IInv, UnusedIds
            <3> QED
                BY <1>2, <1>3, <3>1, <3>2 DEF IInv, TypeOK, LaunchedOnce
        <2> QED
            BY <1>2, <1>3, <1>4, <2>1, <2>2 DEF IInv, TypeOK, LaunchedOnce
    <1>13. SweeperIsGc'
        BY <1>2, <1>3, <1>4 DEF IInv, TypeOK, SweeperIsGc
    <1>14. RetainAccounting'
        BY <1>2, <1>3, <1>4 DEF IInv, TypeOK, RetainAccounting
    <1>15. HeldFrames'
        BY <1>2, <1>3, <1>4 DEF IInv, TypeOK, HeldFrames, Frame
    <1>16. SweepNotPreempted'
        BY <1>2, <1>3, <1>4 DEF IInv, TypeOK, SweepNotPreempted
    <1>17. FreedIsGone'
        BY <1>2, <1>3, <1>4 DEF IInv, TypeOK, FreedIsGone
    <1>18. CanceledHasNoWaiter'
        BY <1>2, <1>3, <1>4 DEF IInv, TypeOK, CanceledHasNoWaiter
    <1>19. LaunchedIsUnknown'
        BY <1>2, <1>3, <1>4 DEF IInv, TypeOK, LaunchedIsUnknown, Loading, histVars
    <1>20. NoUseAfterFree'
        BY <1>2, <1>3, <1>4 DEF IInv, TypeOK, NoUseAfterFree, histVars
    <1> QED
        BY <1>6, <1>7, <1>8, <1>9, <1>10, <1>11, <1>12, <1>13, <1>14, <1>15, <1>16, <1>17,
           <1>18, <1>19, <1>20 DEF IInv

(* task_launch destroys the task it could not load. *)
LEMMA LaunchFailStep ==
    ASSUME IInv, NEW t \in Task, LaunchFail(t)
    PROVE  IInv'
    <1> DEFINE x == child[t]
    <1> USE Constants
    <1>1. t # Idle /\ At(t, "load") /\ Loading(t)
        BY DEF LaunchFail, At, IInv, KernelTasks, Loading
    <1>2. /\ machine = "up" /\ running = t /\ pc[t] = "load"
          /\ state[t] = "running" /\ t \notin freed /\ t < nextId
        BY <1>1, RunningTask DEF At
    <1>3. /\ x \in User /\ x \in Task /\ x # t /\ x < nextId
          /\ state[x] \in {"none", "canceled"} /\ pc[x] = "run"
          /\ \A u \in Task : Loading(u) /\ child[u] = x => u = t
        <2>1. x \in User /\ x # NoTask
            BY <1>1 DEF IInv, LaunchedOnce
        <2> QED
            BY <1>1, <1>2, <2>1 DEF IInv, TypeOK, LaunchedOnce, UnusedIds
    <1>4. /\ state' = [state EXCEPT ![x] = "none"]
          /\ runList' = RunListAfter(x, "none")
          /\ blockList' = BlockListAfter(x, "none")
          /\ tasks' = tasks \ {x}
          /\ freed' = freed \cup {x}
          /\ blocker' = [blocker EXCEPT ![x] = NoBlocker]
          /\ child' = [child EXCEPT ![x] = NoTask]
          /\ exit' = [exit EXCEPT ![x] = NoValue]
          /\ saved' = [saved EXCEPT ![x] = TRUE]
          /\ pc' = [pc EXCEPT ![t] = "run"]
          /\ ifl' \in BOOLEAN
          /\ machine' = IF x \in freed THEN "corrupt" ELSE IF t = System THEN "panic" ELSE machine
          /\ UNCHANGED <<nextId, running, first, late, guessed, depth, held, ready>>
        BY DEF LaunchFail, Destroy, AtReturn, AfterRelease, histVars
    <1>5. /\ state' \in [Task -> TaskState] /\ ListsMatchStates'
          /\ runList' \in ListOver(Task) /\ blockList' \in ListOver(Task)
          /\ state'[t] = "running" /\ IsTail(runList', t)
        BY <1>1, <1>2, <1>3, <1>4, MoveEffect, RunningTask DEF TaskState, Links
    <1>6. \A u \in Task : Loading(u)' =>
              u # t /\ u # x /\ Loading(u) /\ child[u] # x /\ child'[u] = child[u]
        BY <1>2, <1>3, <1>4 DEF IInv, TypeOK, Loading
    <1>7. TypeOK'
        BY <1>3, <1>4, <1>5 DEF IInv, TypeOK, Location
    <1>8. ListsMatchStates'
        BY <1>5
    <1>9. RunningIsRunnable'
        BY <1>2, <1>4, <1>5 DEF IInv, TypeOK, RunningIsRunnable, IsTail
    <1>10. KernelTasks'
        BY <1>2, <1>3, <1>4 DEF IInv, TypeOK, KernelTasks
    <1>11. UnusedIds'
        BY <1>2, <1>3, <1>4 DEF IInv, TypeOK, UnusedIds, NoBlocker
    <1>12. BlockedOrWoken'
        BY <1>2, <1>3, <1>4 DEF IInv, TypeOK, BlockedOrWoken, NoBlocker
    <1>13. LaunchedOnce'
        BY <1>2, <1>3, <1>4, <1>6 DEF IInv, TypeOK, LaunchedOnce
    <1>14. SweeperIsGc'
        BY <1>2, <1>3, <1>4 DEF IInv, TypeOK, SweeperIsGc, NoBlocker
    <1>15. RetainAccounting'
        BY <1>2, <1>3, <1>4 DEF IInv, TypeOK, RetainAccounting
    <1>16. HeldFrames'
        BY <1>2, <1>3, <1>4 DEF IInv, TypeOK, HeldFrames, Frame, NoBlocker
    <1>17. SweepNotPreempted'
        BY <1>2, <1>3, <1>4 DEF IInv, TypeOK, SweepNotPreempted
    <1>18. FreedIsGone'
        BY <1>2, <1>3, <1>4 DEF IInv, TypeOK, FreedIsGone
    <1>19. CanceledHasNoWaiter'
        BY <1>2, <1>3, <1>4 DEF IInv, TypeOK, CanceledHasNoWaiter, NoBlocker
    <1>20. LaunchedIsUnknown'
        BY <1>2, <1>3, <1>4, <1>6, <1>1 DEF IInv, TypeOK, LaunchedOnce, LaunchedIsUnknown, NoBlocker
    <1>21. NoUseAfterFree'
        <2>1. ~guessed =>
                  x \in tasks /\ \A u \in Task : blocker[u].kind = "wait" => blocker[u].target # x
            BY <1>1 DEF IInv, LaunchedIsUnknown
        <2>2. ~guessed => x \notin freed
            BY <2>1 DEF IInv, FreedIsGone
        <2> QED
            BY <1>2, <1>3, <1>4, <2>1, <2>2 DEF IInv, TypeOK, NoUseAfterFree, NoBlocker
    <1> QED
        BY <1>7, <1>8, <1>9, <1>10, <1>11, <1>12, <1>13, <1>14, <1>15, <1>16, <1>17, <1>18,
           <1>19, <1>20, <1>21 DEF IInv

(* The collector destroys a canceled task. *)
LEMMA GcDestroyStep ==
    ASSUME IInv, NEW x \in Task, GcDestroy(x)
    PROVE  IInv'
    <1> USE Constants
    <1>1. At(Gc, "sweep")
        BY DEF GcDestroy
    <1>2. /\ machine = "up" /\ running = Gc /\ pc[Gc] = "sweep"
          /\ state[Gc] = "running" /\ Gc \notin freed /\ Gc < nextId
        BY <1>1, RunningTask DEF At
    <1>3. /\ x \in User /\ x # Gc /\ x \in tasks /\ state[x] = "canceled" /\ x \notin freed
        BY DEF GcDestroy, IInv, KernelTasks, FreedIsGone
    <1>4. /\ state' = [state EXCEPT ![x] = "none"]
          /\ runList' = RunListAfter(x, "none")
          /\ blockList' = BlockListAfter(x, "none")
          /\ tasks' = tasks \ {x}
          /\ freed' = freed \cup {x}
          /\ blocker' = [blocker EXCEPT ![x] = NoBlocker]
          /\ child' = [child EXCEPT ![x] = NoTask]
          /\ exit' = [exit EXCEPT ![x] = NoValue]
          /\ saved' = [saved EXCEPT ![x] = TRUE]
          /\ pc' = [pc EXCEPT ![x] = "run"]
          /\ ifl' = AfterRelease(depth)
          /\ UNCHANGED <<nextId, running, first, late, guessed, depth, held, ready, machine>>
        BY DEF GcDestroy, Destroy, histVars
    <1>5. /\ state' \in [Task -> TaskState] /\ ListsMatchStates'
          /\ runList' \in ListOver(Task) /\ blockList' \in ListOver(Task)
          /\ state'[Gc] = "running" /\ IsTail(runList', Gc)
        BY <1>1, <1>2, <1>3, <1>4, MoveEffect, RunningTask DEF TaskState, Links
    <1>6. \A u \in Task : Loading(u)' => u # x /\ Loading(u) /\ child'[u] = child[u]
        BY <1>3, <1>4 DEF IInv, TypeOK, Loading
    <1>7. TypeOK'
        BY <1>3, <1>4, <1>5 DEF IInv, TypeOK, Location, AfterRelease
    <1>8. ListsMatchStates'
        BY <1>5
    <1>9. RunningIsRunnable'
        BY <1>2, <1>3, <1>4, <1>5 DEF IInv, TypeOK, RunningIsRunnable, IsTail
    <1>10. KernelTasks'
        BY <1>2, <1>3, <1>4 DEF IInv, TypeOK, KernelTasks
    <1>11. UnusedIds'
        BY <1>2, <1>3, <1>4 DEF IInv, TypeOK, UnusedIds, NoBlocker
    <1>12. BlockedOrWoken'
        BY <1>2, <1>3, <1>4 DEF IInv, TypeOK, BlockedOrWoken, NoBlocker
    <1>13. LaunchedOnce'
        BY <1>2, <1>3, <1>4, <1>6 DEF IInv, TypeOK, LaunchedOnce
    <1>14. SweeperIsGc'
        BY <1>2, <1>3, <1>4 DEF IInv, TypeOK, SweeperIsGc, NoBlocker
    <1>15. RetainAccounting'
        BY <1>2, <1>3, <1>4 DEF IInv, TypeOK, RetainAccounting
    <1>16. HeldFrames'
        BY <1>2, <1>3, <1>4 DEF IInv, TypeOK, HeldFrames, Frame, NoBlocker
    <1>17. SweepNotPreempted'
        <2>1. <<Gc, "task_iterate">> \in held /\ IsFiniteSet(held) /\ depth = Cardinality(held)
            BY <1>2 DEF IInv, HeldFrames, RetainAccounting
        <2>2. depth # 0
            BY <2>1, FS_EmptySet
        <2> QED
            BY <1>2, <1>4, <2>2 DEF SweepNotPreempted, AfterRelease
    <1>18. FreedIsGone'
        BY <1>2, <1>3, <1>4 DEF IInv, TypeOK, FreedIsGone
    <1>19. CanceledHasNoWaiter'
        BY <1>2, <1>3, <1>4 DEF IInv, TypeOK, CanceledHasNoWaiter, NoBlocker
    <1>20. LaunchedIsUnknown'
        BY <1>3, <1>4, <1>6 DEF IInv, TypeOK, LaunchedOnce, LaunchedIsUnknown, NoBlocker
    <1>21. NoUseAfterFree'
        <2>1. \A u \in Task : state[u] = "blocked" /\ blocker[u].kind = "wait" =>
                  blocker[u].target # x
            BY <1>2, <1>3 DEF IInv, CanceledHasNoWaiter
        <2> QED
            BY <1>2, <1>3, <1>4, <2>1 DEF IInv, TypeOK, NoUseAfterFree, NoBlocker
    <1> QED
        BY <1>7, <1>8, <1>9, <1>10, <1>11, <1>12, <1>13, <1>14, <1>15, <1>16, <1>17, <1>18,
           <1>19, <1>20, <1>21 DEF IInv

(* hj_process_cancel of another task. *)
LEMMA CancelOtherStep ==
    ASSUME IInv, NEW t \in User, NEW x \in Task, Cancel(t, x), x # t
    PROVE  IInv'
    <1> USE Constants
    <1>1. t \in Task /\ t # Idle /\ At(t, "run")
        BY DEF Cancel, Calling
    <1>2. /\ machine = "up" /\ running = t /\ pc[t] = "run"
          /\ state[t] = "running" /\ t \notin freed /\ t < nextId
        BY <1>1, RunningTask DEF At
    <1>3. x \in User /\ x \in tasks /\ x \notin freed
        BY DEF Cancel, IInv, FreedIsGone
    <1>4. /\ exit' = [exit EXCEPT ![x] = FAILURE]
          /\ first' = [first EXCEPT ![x] = IF @ = NoValue THEN FAILURE ELSE @]
          /\ state' = [state EXCEPT ![x] = "canceled"]
          /\ runList' = RunListAfter(x, "canceled")
          /\ blockList' = BlockListAfter(x, "canceled")
          /\ guessed' = (guessed \/ BeingLaunched(x))
          /\ ifl' = TRUE
          /\ UNCHANGED <<nextId, tasks, freed, running, pc, blocker, child, late, depth, held,
                         saved, ready, machine>>
        BY DEF Cancel, SetExit
    <1>5. /\ state' \in [Task -> TaskState] /\ ListsMatchStates'
          /\ runList' \in ListOver(Task) /\ blockList' \in ListOver(Task)
          /\ state'[t] = "running" /\ IsTail(runList', t)
        BY <1>1, <1>2, <1>4, MoveEffect, RunningTask DEF TaskState, Links
    <1>6. \A u \in Task : Loading(u)' <=> Loading(u)
        BY <1>4 DEF Loading
    <1>7. TypeOK'
        BY <1>3, <1>4, <1>5, SchedulerAssumption DEF IInv, TypeOK, BeingLaunched
    <1>8. ListsMatchStates'
        BY <1>5
    <1>9. RunningIsRunnable'
        BY <1>2, <1>3, <1>4, <1>5 DEF IInv, TypeOK, RunningIsRunnable, IsTail
    <1>10. KernelTasks'
        BY <1>2, <1>3, <1>4 DEF IInv, TypeOK, KernelTasks
    <1>11. UnusedIds'
        BY <1>2, <1>3, <1>4 DEF IInv, TypeOK, UnusedIds
    <1>12. BlockedOrWoken'
        BY <1>2, <1>3, <1>4 DEF IInv, TypeOK, BlockedOrWoken
    <1>13. LaunchedOnce'
        BY <1>2, <1>3, <1>4, <1>6 DEF IInv, TypeOK, LaunchedOnce
    <1>14. SweeperIsGc'
        BY <1>2, <1>3, <1>4 DEF IInv, TypeOK, SweeperIsGc
    <1>15. RetainAccounting'
        BY <1>2, <1>3, <1>4 DEF IInv, TypeOK, RetainAccounting
    <1>16. HeldFrames'
        BY <1>2, <1>3, <1>4 DEF IInv, TypeOK, HeldFrames, Frame
    <1>17. SweepNotPreempted'
        BY <1>2, <1>3, <1>4 DEF IInv, TypeOK, SweepNotPreempted
    <1>18. FreedIsGone'
        BY <1>2, <1>3, <1>4 DEF IInv, TypeOK, FreedIsGone
    <1>19. CanceledHasNoWaiter'
        BY <1>2, <1>3, <1>4 DEF IInv, TypeOK, CanceledHasNoWaiter
    <1>20. LaunchedIsUnknown'
        <2>1. ~guessed' => ~guessed /\ \A u \in Task : Loading(u) => child[u] # x
            BY <1>4 DEF BeingLaunched, Loading
        <2> QED
            BY <1>3, <1>4, <1>6, <2>1 DEF IInv, TypeOK, LaunchedIsUnknown
    <1>21. NoUseAfterFree'
        BY <1>2, <1>3, <1>4 DEF IInv, TypeOK, NoUseAfterFree, histVars
    <1> QED
        BY <1>7, <1>8, <1>9, <1>10, <1>11, <1>12, <1>13, <1>14, <1>15, <1>16, <1>17, <1>18,
           <1>19, <1>20, <1>21 DEF IInv

(* task_iterate retains the interrupts. *)
LEMMA GcRetainStep ==
    ASSUME IInv, GcRetain
    PROVE  IInv'
    <1> USE Constants
    <1>1. At(Gc, "iterate")
        BY DEF GcRetain
    <1>2. /\ machine = "up" /\ running = Gc /\ pc[Gc] = "iterate"
          /\ state[Gc] = "running" /\ Gc \notin freed /\ Gc < nextId
        BY <1>1, RunningTask DEF At
    <1>3. /\ pc' = [pc EXCEPT ![Gc] = "sweep"]
          /\ depth' = depth + 1
          /\ held' = held \cup {<<Gc, "task_iterate">>}
          /\ ifl' = FALSE
          /\ UNCHANGED <<state, nextId, tasks, freed, runList, blockList, running, blocker, child,
                         exit, first, late, guessed, saved, ready, machine>>
        BY DEF GcRetain, listVars, histVars
    <1>4. /\ <<Gc, "task_iterate">> \notin held
          /\ IsFiniteSet(held) /\ depth = Cardinality(held)
        BY <1>2 DEF IInv, HeldFrames, RetainAccounting, Frame
    <1>5. TypeOK'
        <2>1. held' \subseteq Task \X Frame /\ depth' \in Int
            BY <1>3 DEF IInv, TypeOK, Frame
        <2> QED
            BY <1>3, <2>1 DEF IInv, TypeOK, Location
    <1>6. ListsMatchStates'
        BY <1>2, <1>3 DEF IInv, TypeOK, ListsMatchStates, listVars
    <1>7. RunningIsRunnable'
        BY <1>2, <1>3 DEF IInv, TypeOK, RunningIsRunnable, listVars
    <1>8. KernelTasks'
        BY <1>2, <1>3 DEF IInv, TypeOK, KernelTasks
    <1>9. UnusedIds'
        BY <1>2, <1>3 DEF IInv, TypeOK, UnusedIds
    <1>10. BlockedOrWoken'
        BY <1>2, <1>3 DEF IInv, TypeOK, BlockedOrWoken
    <1>11. LaunchedOnce'
        BY <1>2, <1>3 DEF IInv, TypeOK, LaunchedOnce, Loading
    <1>12. SweeperIsGc'
        BY <1>2, <1>3 DEF IInv, TypeOK, SweeperIsGc
    <1>13. RetainAccounting'
        BY <1>3, <1>4, FS_AddElement DEF RetainAccounting
    <1>14. HeldFrames'
        <2>1. IsFiniteSet(held')
            BY <1>3, <1>4, FS_AddElement
        <2> QED
            BY <1>2, <1>3, <2>1 DEF IInv, TypeOK, HeldFrames, Frame
    <1>15. SweepNotPreempted'
        BY <1>2, <1>3 DEF IInv, TypeOK, SweepNotPreempted
    <1>16. FreedIsGone'
        BY <1>2, <1>3 DEF IInv, TypeOK, FreedIsGone
    <1>17. CanceledHasNoWaiter'
        BY <1>2, <1>3 DEF IInv, TypeOK, CanceledHasNoWaiter
    <1>18. LaunchedIsUnknown'
        BY <1>2, <1>3 DEF IInv, TypeOK, LaunchedIsUnknown, Loading, histVars
    <1>19. NoUseAfterFree'
        BY <1>2, <1>3 DEF IInv, TypeOK, NoUseAfterFree, histVars
    <1> QED
        BY <1>5, <1>6, <1>7, <1>8, <1>9, <1>10, <1>11, <1>12, <1>13, <1>14, <1>15, <1>16,
           <1>17, <1>18, <1>19 DEF IInv

(* task_iterate is done. *)
LEMMA GcReleaseStep ==
    ASSUME IInv, GcRelease
    PROVE  IInv'
    <1> USE Constants
    <1>1. At(Gc, "sweep")
        BY DEF GcRelease
    <1>2. /\ machine = "up" /\ running = Gc /\ pc[Gc] = "sweep"
          /\ state[Gc] = "running" /\ Gc \notin freed /\ Gc < nextId
        BY <1>1, RunningTask DEF At
    <1>3. /\ pc' = [pc EXCEPT ![Gc] = "run"]
          /\ depth' = depth - 1
          /\ held' = held \ {<<Gc, "task_iterate">>}
          /\ ifl' \in BOOLEAN
          /\ UNCHANGED <<state, nextId, tasks, freed, runList, blockList, running, blocker, child,
                         exit, first, late, guessed, saved, ready, machine>>
        BY DEF GcRelease, listVars, histVars, AfterRelease
    <1>4. /\ <<Gc, "task_iterate">> \in held
          /\ IsFiniteSet(held) /\ depth = Cardinality(held)
        BY <1>2 DEF IInv, HeldFrames, RetainAccounting
    <1>5. TypeOK'
        BY <1>2, <1>3 DEF IInv, TypeOK, listVars, histVars, irqVars, Location
    <1>6. ListsMatchStates'
        BY <1>2, <1>3 DEF IInv, TypeOK, ListsMatchStates, listVars
    <1>7. RunningIsRunnable'
        BY <1>2, <1>3 DEF IInv, TypeOK, RunningIsRunnable, listVars
    <1>8. KernelTasks'
        BY <1>2, <1>3 DEF IInv, TypeOK, KernelTasks
    <1>9. UnusedIds'
        BY <1>2, <1>3 DEF IInv, TypeOK, UnusedIds
    <1>10. BlockedOrWoken'
        BY <1>2, <1>3 DEF IInv, TypeOK, BlockedOrWoken
    <1>11. LaunchedOnce'
        BY <1>2, <1>3 DEF IInv, TypeOK, LaunchedOnce, Loading
    <1>12. SweeperIsGc'
        BY <1>2, <1>3 DEF IInv, TypeOK, SweeperIsGc
    <1>13. RetainAccounting'
        BY <1>3, <1>4, FS_RemoveElement DEF RetainAccounting
    <1>14. HeldFrames'
        <2>1. IsFiniteSet(held')
            BY <1>3, <1>4, FS_RemoveElement
        <2> QED
            BY <1>2, <1>3, <2>1 DEF IInv, TypeOK, HeldFrames, Frame
    <1>15. SweepNotPreempted'
        BY <1>2, <1>3 DEF IInv, TypeOK, SweepNotPreempted
    <1>16. FreedIsGone'
        BY <1>2, <1>3 DEF IInv, TypeOK, FreedIsGone
    <1>17. CanceledHasNoWaiter'
        BY <1>2, <1>3 DEF IInv, TypeOK, CanceledHasNoWaiter
    <1>18. LaunchedIsUnknown'
        BY <1>2, <1>3 DEF IInv, TypeOK, LaunchedIsUnknown, Loading, histVars
    <1>19. NoUseAfterFree'
        BY <1>2, <1>3 DEF IInv, TypeOK, NoUseAfterFree, histVars
    <1> QED
        BY <1>5, <1>6, <1>7, <1>8, <1>9, <1>10, <1>11, <1>12, <1>13, <1>14, <1>15, <1>16,
           <1>17, <1>18, <1>19 DEF IInv

(* The two blockers belong to the same call of task_block. *)
SameCall(b, c) == b.kind = c.kind /\ b.target = c.target /\ b.ret = c.ret

(* A step that ends in schedule(), entered with the states st: what is     *)
(* left of it once the lists and the blockers are abstracted.              *)
ScheduledFrom(st) ==
    /\ state' \in [Task -> TaskState]
    /\ blocker' \in [Task -> Blocker]
    /\ Links(runList', "running", state')
    /\ Links(blockList', "blocked", state')
    /\ running' \in Task
    /\ \/ running' = Idle
       \/ state'[running'] = "running" /\ IsTail(runList', running')
    /\ ifl' = saved'[running']
    /\ machine' \in {machine, "corrupt"}
    /\ machine' # machine =>
           \E t \in Task : st[t] = "blocked" /\ blocker[t].kind = "wait" /\ blocker[t].target \in freed
    /\ \A t \in Task :
           /\ SameCall(blocker'[t], blocker[t])
           /\ \/ /\ state'[t] = st[t] /\ blocker'[t].result = blocker[t].result
                 /\ st[t] = "blocked" /\ blocker[t].kind = "wait" /\ blocker[t].target \in Task =>
                        st[blocker[t].target] # "canceled"
              \/ st[t] = "blocked" /\ state'[t] = "running" /\ blocker'[t].result # "none"

(* schedule() is such a step if the blockers it is given are those of the   *)
(* tasks, but for their deadlines.                                         *)
LEMMA ScheduleFrom ==
    ASSUME NEW st \in [Task -> TaskState], NEW bk \in [Task -> Blocker], NEW rl, NEW bl,
           NEW ex \in [Task -> ExitValue \cup {NoValue}],
           Links(rl, "running", st), Links(bl, "blocked", st),
           \A t \in Task : SameCall(bk[t], blocker[t]) /\ bk[t].result = blocker[t].result,
           Schedule(st, rl, bl, bk, ex)
    PROVE  ScheduledFrom(st)
    <1>1. /\ state' \in [Task -> TaskState] /\ blocker' \in [Task -> Blocker]
          /\ Links(runList', "running", state') /\ Links(blockList', "blocked", state')
          /\ \/ running' = Idle
             \/ running' \in Task /\ state'[running'] = "running" /\ IsTail(runList', running')
          /\ ifl' = saved'[running']
          /\ machine' \in {machine, "corrupt"}
          /\ machine' # machine =>
                 \E t \in Task : st[t] = "blocked" /\ bk[t].kind = "wait" /\ bk[t].target \in freed
          /\ \A t \in Task :
                 \/ state'[t] = st[t] /\ blocker'[t] = bk[t]
                    /\ (st[t] = "blocked" => ~CanUnblock(st, bk[t]))
                 \/ /\ st[t] = "blocked" /\ state'[t] = "running"
                    /\ blocker'[t].result # "none" /\ blocker'[t].kind = bk[t].kind
                    /\ blocker'[t].target = bk[t].target /\ blocker'[t].ret = bk[t].ret
        BY ScheduleEffect
    <1>2. ASSUME NEW t \in Task
          PROVE  /\ SameCall(blocker'[t], blocker[t])
                 /\ \/ /\ state'[t] = st[t] /\ blocker'[t].result = blocker[t].result
                       /\ st[t] = "blocked" /\ blocker[t].kind = "wait"
                              /\ blocker[t].target \in Task => st[blocker[t].target] # "canceled"
                    \/ st[t] = "blocked" /\ state'[t] = "running" /\ blocker'[t].result # "none"
        BY <1>1 DEF SameCall, CanUnblock
    <1> QED
        BY <1>1, <1>2, Constants DEF ScheduledFrom, SameCall

(* schedule() after a timer interrupt, a yield, or the end of a process. *)
LEMMA ScheduleStep ==
    ASSUME IInv, machine = "up", NEW st \in [Task -> TaskState], ScheduledFrom(st),
           \/ st = state
           \/ running \in User /\ st = [state EXCEPT ![running] = "canceled"],
           \/ pc' = pc /\ st = state
           \/ pc' = [pc EXCEPT ![running] = "yielded"] /\ pc[running] = "parked"
           \/ pc' = [pc EXCEPT ![running] = "yielded"] /\ pc[running] = "run"
              /\ st[running] = "canceled",
           pc[Gc] # "sweep",
           IsFiniteSet(held'), depth' = Cardinality(held'), held \subseteq held',
           held' \subseteq held \cup ({running} \X {"cancel", "hj_process_cancel"}),
           held' # held => st[running] = "canceled" /\ pc'[running] = "yielded",
           exit' \in [Task -> ExitValue \cup {NoValue}],
           first' \in [Task -> ExitValue \cup {NoValue}],
           saved' \in [Task -> BOOLEAN],
           UNCHANGED <<nextId, tasks, freed, child, late, ready, guessed>>
    PROVE  IInv'
    <1> USE Constants
    <1>1. running \in Task /\ running' \in Task
        BY DEF ScheduledFrom, IInv, TypeOK
    <1>2. ASSUME NEW t \in Task
          PROVE  /\ SameCall(blocker'[t], blocker[t])
                 /\ \/ /\ state'[t] = st[t] /\ blocker'[t].result = blocker[t].result
                       /\ st[t] = "blocked" /\ blocker[t].kind = "wait"
                              /\ blocker[t].target \in Task => st[blocker[t].target] # "canceled"
                    \/ st[t] = "blocked" /\ state'[t] = "running" /\ blocker'[t].result # "none"
        BY DEF ScheduledFrom
    <1>3. \A t \in Task : st[t] = state[t] \/ (t = running /\ t \in User /\ st[t] = "canceled")
        BY <1>1 DEF IInv, TypeOK
    <1>4. \A t \in Task : state'[t] = "canceled" <=> st[t] = "canceled"
        BY <1>2
    <1>5. \A t \in Task :
              pc'[t] = pc[t] \/ (t = running /\ pc'[t] = "yielded" /\ pc[t] \in {"parked", "run"})
        BY <1>1 DEF IInv, TypeOK
    <1>6. pc' \in [Task -> Location]
        BY <1>1 DEF IInv, TypeOK, Location
    <1>7. \A t \in Task : Loading(t)' => Loading(t)
        BY <1>1, <1>2, <1>5 DEF IInv, BlockedOrWoken, Loading, SameCall
    <1>8. running \notin freed /\ (running # Idle => state[running] \in {"running", "blocked"})
        BY <1>1 DEF IInv, RunningIsRunnable, FreedIsGone, KernelTasks
    <1>9. TypeOK'
        <2>1. held' \subseteq Task \X Frame /\ depth' \in Int
            BY <1>1, FS_CardinalityType DEF IInv, TypeOK, Frame
        <2>2. ifl' \in BOOLEAN /\ machine' \in {"up", "panic", "corrupt"}
            BY <1>1 DEF ScheduledFrom
        <2> QED
            BY <1>1, <1>6, <2>1, <2>2 DEF IInv, TypeOK, ScheduledFrom, Links
    <1>10. ListsMatchStates'
        BY DEF ScheduledFrom, ListsMatchStates, Links
    <1>11. KernelTasks'
        BY <1>1, <1>2, <1>3, <1>4, <1>5 DEF IInv, TypeOK, KernelTasks
    <1>12. UnusedIds'
        BY <1>1, <1>2, <1>3, <1>4, <1>5, <1>6, RunningTask DEF IInv, TypeOK, UnusedIds,
           SameCall, At
    <1>13. BlockedOrWoken'
        BY <1>1, <1>2, <1>3, <1>4, <1>5 DEF IInv, TypeOK, BlockedOrWoken, SameCall
    <1>14. RunningIsRunnable'
        <2>1. running' = Idle => pc'[running'] # "yielded"
            BY <1>11 DEF KernelTasks
        <2>2. pc'[running'] = "yielded" => blocker'[running'].result # "none"
            BY <1>1, <2>1, <1>13 DEF ScheduledFrom, BlockedOrWoken
        <2>3. \/ running' = Idle
              \/ /\ state'[running'] = "running"
                 /\ \A t \in runList'.items \ {running'} : <<t, running'>> \in runList'.before
            BY DEF ScheduledFrom, IsTail
        <2> QED
            BY <2>2, <2>3 DEF RunningIsRunnable
    <1>15. LaunchedOnce'
        <2>1. \A u \in Task : Loading(u) =>
                  /\ child[u] \in User /\ child[u] \in Task /\ child[u] # running
                  /\ state[child[u]] \in {"none", "canceled"} /\ pc[child[u]] = "run"
            BY <1>8 DEF IInv, LaunchedOnce
        <2>2. \A x \in Task : x # running => st[x] = state[x] /\ pc'[x] = pc[x]
            BY <1>3, <1>5
        <2>3. \A u \in Task : Loading(u) =>
                  state'[child[u]] \in {"none", "canceled"} /\ pc'[child[u]] = "run"
            BY <1>2, <2>1, <2>2
        <2> QED
            BY <1>7, <2>1, <2>3 DEF IInv, LaunchedOnce
    <1>16. SweeperIsGc'
        BY <1>1, <1>2, <1>3, <1>4, <1>5 DEF IInv, TypeOK, SweeperIsGc, SameCall
    <1>17. RetainAccounting'
        BY DEF RetainAccounting
    <1>18. HeldFrames'
        <2>1. \A t \in Task : pc[t] \in {"parked", "yielded"} => pc'[t] \in {"parked", "yielded"}
            BY <1>5
        <2>2. \A t \in Task : blocker'[t].kind = blocker[t].kind
            BY <1>2 DEF SameCall
        <2>3. \A t \in Task : pc'[t] \in {"parked", "yielded"} /\ blocker[t].kind = "wait" =>
                  pc[t] \in {"parked", "yielded"}
            BY DEF IInv, BlockedOrWoken
        <2>4. \A t \in Task : pc'[t] = "sweep" <=> pc[t] = "sweep"
            BY <1>5
        <2>5. \A t \in Task : state[t] = "canceled" /\ pc[t] = "yielded" =>
                  state'[t] = "canceled" /\ pc'[t] = "yielded"
            BY <1>3, <1>4, <1>5
        <2>6. ASSUME NEW t \in Task, NEW f \in Frame, <<t, f>> \in held', <<t, f>> \notin held
              PROVE  f \in {"cancel", "hj_process_cancel"}
                     /\ state'[t] = "canceled" /\ pc'[t] = "yielded"
            <3>1. t = running /\ f \in {"cancel", "hj_process_cancel"}
                BY <2>6
            <3>2. held' # held
                BY <2>6
            <3> QED
                BY <1>1, <1>4, <3>1, <3>2
        <2>7. ASSUME NEW t \in Task, NEW f \in Frame, <<t, f>> \in held
              PROVE  \/ f = "task_wait" /\ pc'[t] \in {"parked", "yielded"}
                        /\ blocker'[t].kind = "wait"
                     \/ f = "task_iterate" /\ t = Gc /\ pc'[t] = "sweep"
                     \/ /\ f \in {"cancel", "hj_process_cancel"}
                        /\ state'[t] = "canceled" /\ pc'[t] = "yielded"
                     \/ t \in freed
            BY <2>1, <2>2, <2>4, <2>5, <2>7 DEF IInv, HeldFrames
        <2> QED
            BY <2>2, <2>3, <2>4, <2>6, <2>7 DEF IInv, HeldFrames
    <1>19. SweepNotPreempted'
        BY <1>1, <1>5 DEF SweepNotPreempted
    <1>20. FreedIsGone'
        <2>1. \A x \in freed : st[x] = state[x] /\ pc'[x] = pc[x]
            BY <1>3, <1>5, <1>8 DEF IInv, TypeOK
        <2> QED
            BY <1>2, <2>1 DEF IInv, TypeOK, FreedIsGone
    <1>21. CanceledHasNoWaiter'
        BY <1>1, <1>2, <1>3, <1>4, <1>5 DEF IInv, TypeOK, CanceledHasNoWaiter, SameCall,
           UnusedIds
    <1>22. LaunchedIsUnknown'
        <2>1. \A u \in Task : Loading(u) => child[u] \in Task /\ child[u] # running
            BY <1>8 DEF IInv, LaunchedOnce
        <2>2. \A u \in Task : Loading(u) /\ state[child[u]] = "none" => state'[child[u]] = "none"
            BY <1>2, <1>3, <2>1
        <2>3. \A v \in Task :
                  blocker'[v].kind = blocker[v].kind /\ blocker'[v].target = blocker[v].target
            BY <1>2 DEF SameCall
        <2> QED
            BY <1>7, <2>2, <2>3 DEF IInv, LaunchedIsUnknown
    <1>23. NoUseAfterFree'
        <2>1. \A x \in Task : state'[x] = "blocked" => state[x] = "blocked"
            BY <1>2, <1>3
        <2>2. \A x \in Task :
                  blocker'[x].kind = blocker[x].kind /\ blocker'[x].target = blocker[x].target
            BY <1>2 DEF SameCall
        <2>3. \A x \in Task : st[x] = "blocked" => state[x] = "blocked"
            BY <1>3
        <2>4. ~guessed => machine' # "corrupt"
            BY <2>3 DEF IInv, NoUseAfterFree, ScheduledFrom
        <2>5. running' \notin freed
            BY <1>1, <1>2, <1>3 DEF IInv, FreedIsGone, KernelTasks, ScheduledFrom
        <2> QED
            BY <2>1, <2>2, <2>4, <2>5 DEF IInv, NoUseAfterFree
    <1> QED
        BY <1>9, <1>10, <1>11, <1>12, <1>13, <1>14, <1>15, <1>16, <1>17, <1>18, <1>19,
           <1>20, <1>21, <1>22, <1>23 DEF IInv

(* The timer interrupt. *)
LEMMA TickStep ==
    ASSUME IInv, Tick
    PROVE  IInv'
    <1> DEFINE bk == [t \in Task |-> Nearer(blocker[t])]
    <1>1. /\ machine = "up" /\ ifl
          /\ saved' = [saved EXCEPT ![running] = TRUE]
          /\ Schedule(state, runList, blockList, bk, exit)
          /\ UNCHANGED <<nextId, tasks, freed, pc, child, exit, first, late, depth, held, ready, guessed>>
        BY DEF Tick
    <1>2. ASSUME NEW t \in Task
          PROVE  /\ Nearer(blocker[t]) \in Blocker
                 /\ SameCall(Nearer(blocker[t]), blocker[t])
                 /\ Nearer(blocker[t]).result = blocker[t].result
        <2>1. blocker[t] \in Blocker
            BY DEF IInv, TypeOK
        <2> QED
            BY <2>1 DEF Nearer, Blocker, SameCall, Forever
    <1>3. bk \in [Task -> Blocker]
        BY <1>2
    <1>4. \A t \in Task : SameCall(bk[t], blocker[t]) /\ bk[t].result = blocker[t].result
        BY <1>2
    <1> HIDE DEF bk
    <1>5. state \in [Task -> TaskState] /\ exit \in [Task -> ExitValue \cup {NoValue}]
        BY DEF IInv, TypeOK
    <1>6. ScheduledFrom(state)
        BY <1>1, <1>3, <1>4, <1>5, BothLink, ScheduleFrom
    <1>7. pc[Gc] # "sweep"
        BY <1>1 DEF IInv, SweepNotPreempted
    <1>8. /\ IsFiniteSet(held') /\ depth' = Cardinality(held') /\ held' = held
          /\ exit' \in [Task -> ExitValue \cup {NoValue}]
          /\ first' \in [Task -> ExitValue \cup {NoValue}]
          /\ saved' \in [Task -> BOOLEAN]
        BY <1>1 DEF IInv, TypeOK, HeldFrames, RetainAccounting
    <1> QED
        BY <1>1, <1>5, <1>6, <1>7, <1>8, ScheduleStep

(* scheduler_yield. *)
LEMMA YieldStep ==
    ASSUME IInv, NEW t \in Task, Yield(t)
    PROVE  IInv'
    <1>1. /\ machine = "up" /\ running = t /\ pc[t] = "parked"
          /\ pc' = [pc EXCEPT ![t] = "yielded"]
          /\ saved' = [saved EXCEPT ![t] = ifl]
          /\ Schedule(state, runList, blockList, blocker, exit)
          /\ UNCHANGED <<nextId, tasks, freed, child, exit, first, late, depth, held, ready, guessed>>
        BY DEF Yield, At
    <1>2. /\ state \in [Task -> TaskState] /\ exit \in [Task -> ExitValue \cup {NoValue}]
          /\ blocker \in [Task -> Blocker]
        BY DEF IInv, TypeOK
    <1>3. \A u \in Task : SameCall(blocker[u], blocker[u])
        BY DEF SameCall
    <1>4. ScheduledFrom(state)
        BY <1>1, <1>2, <1>3, BothLink, ScheduleFrom
    <1>5. pc[Gc] # "sweep"
        BY <1>1 DEF IInv, SweepNotPreempted
    <1>6. /\ IsFiniteSet(held') /\ depth' = Cardinality(held') /\ held' = held
          /\ exit' \in [Task -> ExitValue \cup {NoValue}]
          /\ first' \in [Task -> ExitValue \cup {NoValue}]
          /\ saved' \in [Task -> BOOLEAN]
        BY <1>1 DEF IInv, TypeOK, HeldFrames, RetainAccounting
    <1> QED
        BY <1>1, <1>2, <1>4, <1>5, <1>6, ScheduleStep

(* Task::cancel of the running process. *)
LEMMA CancelRunningStep ==
    ASSUME IInv, NEW t \in User, At(t, "run"), NEW v \in ExitValue, NEW frames,
           frames = {"cancel"} \/ frames = {"cancel", "hj_process_cancel"},
           CancelRunning(t, v, frames)
    PROVE  IInv'
    <1> DEFINE st == [state EXCEPT ![t] = "canceled"]
    <1>1. t \in Task /\ t # Idle /\ t # Gc
        BY Constants
    <1>2. machine = "up" /\ running = t /\ pc[t] = "run" /\ state[t] = "running" /\ t \notin freed
        BY <1>1, RunningTask DEF At
    <1>3. /\ exit' = [exit EXCEPT ![t] = v]
          /\ first' = [first EXCEPT ![t] = IF @ = NoValue THEN v ELSE @]
          /\ depth' = depth + Cardinality(frames)
          /\ held' = held \cup ({t} \X frames)
          /\ saved' = [saved EXCEPT ![t] = FALSE]
          /\ pc' = [pc EXCEPT ![t] = "yielded"]
          /\ Schedule(st, RunListAfter(t, "canceled"), BlockListAfter(t, "canceled"), blocker, exit')
          /\ UNCHANGED <<nextId, tasks, freed, child, late, ready, guessed>>
        BY DEF CancelRunning, SetExit
    <1>4. /\ state \in [Task -> TaskState] /\ blocker \in [Task -> Blocker]
          /\ st \in [Task -> TaskState] /\ st[t] = "canceled"
          /\ exit' \in [Task -> ExitValue \cup {NoValue}]
          /\ first' \in [Task -> ExitValue \cup {NoValue}]
          /\ saved' \in [Task -> BOOLEAN]
        BY <1>1, <1>3 DEF IInv, TypeOK, TaskState
    <1>5. /\ Links(RunListAfter(t, "canceled"), "running", st)
          /\ Links(BlockListAfter(t, "canceled"), "blocked", st)
        BY <1>1, <1>4, BothLink, ListAfterLinks DEF RunListAfter, BlockListAfter
    <1>6. \A u \in Task : SameCall(blocker[u], blocker[u])
        BY DEF SameCall
    <1>7. ScheduledFrom(st)
        <2> HIDE DEF st
        <2> QED
            BY <1>3, <1>4, <1>5, <1>6, ScheduleFrom
    <1>8. pc[Gc] # "sweep"
        BY <1>1, <1>2 DEF IInv, SweepNotPreempted
    <1>9. IsFiniteSet(held') /\ depth' = Cardinality(held')
        <2>1. IsFiniteSet(held) /\ depth = Cardinality(held) /\ depth \in Int
            BY DEF IInv, TypeOK, HeldFrames, RetainAccounting
        <2>2. <<t, "cancel">> \notin held /\ <<t, "hj_process_cancel">> \notin held
            BY <1>1, <1>2 DEF IInv, HeldFrames, Frame
        <2> DEFINE h1 == held \cup {<<t, "cancel">>}
                   h2 == h1 \cup {<<t, "hj_process_cancel">>}
        <2>3. IsFiniteSet(h1) /\ Cardinality(h1) = depth + 1
            BY <2>1, <2>2, FS_AddElement
        <2>4. <<t, "hj_process_cancel">> \notin h1
            BY <2>2
        <2>5. IsFiniteSet(h2) /\ Cardinality(h2) = depth + 2
            <3> HIDE DEF h1
            <3>1. IsFiniteSet(h2) /\ Cardinality(h2) = Cardinality(h1) + 1
                BY <2>3, <2>4, FS_AddElement
            <3> QED
                BY <2>1, <2>3, <3>1
        <2>6. CASE frames = {"cancel"}
            <3>1. Cardinality(frames) = 1
                BY <2>6, FS_Singleton
            <3>2. held' = h1
                BY <1>3, <2>6
            <3> QED
                BY <1>3, <2>3, <3>1, <3>2
        <2>7. CASE frames = {"cancel", "hj_process_cancel"}
            <3>1. Cardinality({"cancel"}) = 1 /\ IsFiniteSet({"cancel"})
                BY FS_Singleton
            <3>2. {"cancel"} \cup {"hj_process_cancel"} = frames /\ "hj_process_cancel" \notin {"cancel"}
                BY <2>7
            <3>3. Cardinality(frames) = 2
                BY <3>1, <3>2, FS_AddElement
            <3>4. held' = h2
                BY <1>3, <2>7
            <3> QED
                BY <1>3, <2>5, <3>3, <3>4
        <2> QED
            BY <2>6, <2>7
    <1>10. held \subseteq held' /\ held' \subseteq held \cup ({t} \X {"cancel", "hj_process_cancel"})
        BY <1>3
    <1>11. pc'[t] = "yielded"
        BY <1>1, <1>3 DEF IInv, TypeOK
    <1> HIDE DEF st
    <1>12. st = [state EXCEPT ![t] = "canceled"]
        BY DEF st
    <1> QED
        BY <1>2, <1>3, <1>4, <1>7, <1>8, <1>9, <1>10, <1>11, <1>12, ScheduleStep

-----------------------------------------------------------------------------
(* The invariant holds once tasking_initialize has run. *)
LEMMA InitIInv == Init => IInv
    <1> SUFFICES ASSUME Init
                 PROVE  IInv
        OBVIOUS
    <1> USE Constants
    <1>1. TypeOK
        <2>1. state \in [Task -> TaskState] /\ pc \in [Task -> Location]
            BY DEF Init, TaskState, Location
        <2>2. runList \in ListOver(Task) /\ blockList \in ListOver(Task)
            BY DEF Init, ListOver, EmptyList
        <2>3. blocker \in [Task -> Blocker] /\ child \in [Task -> Task \cup {NoTask}]
            BY DEF Init
        <2>4. /\ exit \in [Task -> ExitValue \cup {NoValue}]
              /\ first \in [Task -> ExitValue \cup {NoValue}]
              /\ saved \in [Task -> BOOLEAN] /\ late \in [Task -> Answer]
            BY DEF Init, NoAnswer, Answer
        <2>5. /\ nextId = 3 /\ tasks = {Idle, System, Gc} /\ freed = {} /\ running = System
              /\ depth = 0 /\ held = {} /\ ifl = TRUE /\ ready = FALSE /\ guessed = FALSE
              /\ machine = "up"
            BY DEF Init
        <2>6. nextId \in Nat /\ depth \in Int
            BY <2>5
        <2>7. /\ tasks \subseteq Task /\ freed \subseteq Task /\ running \in Task
              /\ held \subseteq (Task \X Frame)
            BY <2>5
        <2>8. ifl \in BOOLEAN /\ ready \in BOOLEAN /\ guessed \in BOOLEAN
            BY <2>5
        <2>9. machine \in {"up", "panic", "corrupt"}
            BY <2>5
        <2> QED
            BY <2>1, <2>2, <2>3, <2>4, <2>6, <2>7, <2>8, <2>9 DEF TypeOK
    <1>2. ListsMatchStates
        BY DEF Init, ListsMatchStates, IsTaskList, EmptyList
    <1>3. RunningIsRunnable
        BY DEF Init, RunningIsRunnable
    <1>4. KernelTasks
        BY DEF Init, KernelTasks
    <1>5. UnusedIds
        BY DEF Init, UnusedIds, NoBlocker, Idle, System, Gc
    <1>6. BlockedOrWoken
        BY DEF Init, BlockedOrWoken, NoBlocker
    <1>7. LaunchedOnce /\ SweeperIsGc
        BY DEF Init, LaunchedOnce, Loading, SweeperIsGc, NoBlocker
    <1>8. RetainAccounting /\ HeldFrames /\ SweepNotPreempted
        BY FS_EmptySet DEF Init, RetainAccounting, HeldFrames, SweepNotPreempted
    <1>9. FreedIsGone /\ CanceledHasNoWaiter /\ LaunchedIsUnknown /\ NoUseAfterFree
        BY DEF Init, FreedIsGone, CanceledHasNoWaiter, LaunchedIsUnknown, Loading, NoUseAfterFree
    <1> QED
        BY <1>1, <1>2, <1>3, <1>4, <1>5, <1>6, <1>7, <1>8, <1>9 DEF IInv

(* Every step keeps the invariant. *)
LEMMA NextIInv == IInv /\ [Next]_vars => IInv'
    <1> SUFFICES ASSUME IInv, [Next]_vars
                 PROVE  IInv'
        OBVIOUS
    <1>1. CASE Tick
        BY <1>1, TickStep
    <1>2. CASE \E t \in Task : KernelStep(t)
        <2>1. PICK t \in Task : KernelStep(t)
            BY <1>2
        <2>2. CASE Yield(t)
            BY <2>2, YieldStep
        <2>3. CASE Resume(t)
            BY <2>3, ResumeStep
        <2>4. CASE LaunchGo(t)
            BY <2>4, LaunchGoStep
        <2>5. CASE LaunchFail(t)
            BY <2>5, LaunchFailStep
        <2>6. CASE LoadBlocks(t)
            BY <2>6, LoadBlocksStep
        <2>7. CASE GcStep
            BY <2>7, GcSleepStep, GcRetainStep, GcReleaseStep, GcDestroyStep DEF GcStep
        <2>8. CASE SystemStep
            BY <2>8, Constants, QuietSteps, WaitStep, LaunchBeginStep DEF SystemStep
        <2> QED
            BY <2>1, <2>2, <2>3, <2>4, <2>5, <2>6, <2>7, <2>8 DEF KernelStep
    <1>3. CASE UserStep
        <2>1. PICK t \in User :
                  \/ \E d \in Delay : Sleep(t, d)
                  \/ \E d \in Delay \cup {Forever} : Poll(t, d)
                  \/ \E x \in Task : Wait(t, x) \/ LaunchBegin(t, x) \/ Clone(t, x) \/ Cancel(t, x)
                  \/ \E v \in ExitValue : Exit(t, v)
                  \/ Consume(t)
            BY <1>3 DEF UserStep
        <2>2. t \in Task
            BY Constants
        <2>3. CASE \E d \in Delay : Sleep(t, d)
            BY <2>3, SleepStep
        <2>4. CASE \E d \in Delay \cup {Forever} : Poll(t, d)
            BY <2>4, PollStep
        <2>5. ASSUME NEW x \in Task, Cancel(t, x)
              PROVE  IInv'
            <3>1. CASE x # t
                BY <2>5, <3>1, CancelOtherStep
            <3>2. CASE x = t
                <4>1. At(t, "run") /\ CancelRunning(t, FAILURE, {"cancel", "hj_process_cancel"})
                    BY <2>5, <3>2 DEF Cancel, Calling
                <4> QED
                    BY <4>1, SchedulerAssumption, CancelRunningStep
            <3> QED
                BY <3>1, <3>2
        <2>6. CASE \E x \in Task : Wait(t, x) \/ LaunchBegin(t, x) \/ Clone(t, x) \/ Cancel(t, x)
            BY <2>2, <2>5, <2>6, WaitStep, LaunchBeginStep, CloneStep
        <2>7. CASE \E v \in ExitValue : Exit(t, v)
            BY <2>7, CancelRunningStep DEF Exit, Calling
        <2>8. CASE Consume(t)
            BY <2>8, QuietSteps
        <2> QED
            BY <2>1, <2>3, <2>4, <2>6, <2>7, <2>8
    <1>4. CASE BecomeReady \/ Stopped \/ UNCHANGED vars
        BY <1>4, QuietSteps DEF Stopped
    <1> QED
        BY <1>1, <1>2, <1>3, <1>4 DEF Next

(* The invariant from which the properties below follow. *)
THEOREM Invariance == Spec => []IInv
    BY InitIInv, NextIInv, PTL DEF Spec

(* Every variable has its type. *)
THEOREM TypeCorrect == Spec => []TypeOK
    <1>1. IInv => TypeOK
        BY DEF IInv
    <1> QED
        BY <1>1, Invariance, PTL

(* scheduler_did_change_task_state never loses a task, links one twice or  *)
(* leaves one in the list of another state.                                *)
THEOREM ListsCorrect == Spec => []ListsMatchStates
    <1>1. IInv => ListsMatchStates
        BY DEF IInv
    <1> QED
        BY <1>1, Invariance, PTL

(* schedule() never executes a task that is blocked or canceled. *)
THEOREM RunningCorrect == Spec => []RunningIsRunnable
    <1>1. IInv => RunningIsRunnable
        BY DEF IInv
    <1> QED
        BY <1>1, Invariance, PTL

(* _depth is the number of retainers alive, whichever tasks are canceled   *)
(* while they hold one.                                                    *)
THEOREM RetainCorrect == Spec => []RetainAccounting
    <1>1. IInv => RetainAccounting
        BY DEF IInv
    <1> QED
        BY <1>1, Invariance, PTL

(* The collector is never preempted between two tasks it destroys. *)
THEOREM SweepCorrect == Spec => []SweepNotPreempted
    <1>1. IInv => SweepNotPreempted
        BY DEF IInv
    <1> QED
        BY <1>1, Invariance, PTL

(* No freed task is used, unless a process named a task before its         *)
(* launcher could have told it the identifier.                             *)
THEOREM FreeCorrect == Spec => []NoUseAfterFree
    <1>1. IInv => NoUseAfterFree
        BY DEF IInv
    <1> QED
        BY <1>1, Invariance, PTL
-----------------------------------------------------------------------------
(* Only the end of task_launch and task_destroy take a task out of the     *)
(* state it is canceled in; a task that is freed stays freed.              *)
LEMMA CanceledStep ==
    ASSUME IInv, IInv', Next
    PROVE  ~guessed' =>
               \A t \in Task :
                   /\ state[t] = "canceled" => state'[t] = "canceled" \/ t \in freed'
                   /\ t \in freed => t \in freed' /\ state'[t] = "none"
    <1> USE Constants
    <1> SUFFICES ASSUME ~guessed', NEW t \in Task
                 PROVE  /\ state[t] = "canceled" => state'[t] = "canceled" \/ t \in freed'
                        /\ t \in freed => t \in freed'
        BY DEF IInv, FreedIsGone, NoUseAfterFree
    <1> DEFINE Kept == /\ state[t] = "canceled" => state'[t] = "canceled" \/ t \in freed'
                       /\ t \in freed => t \in freed'
    <1>1. state \in [Task -> TaskState]
        BY DEF IInv, TypeOK
    <1>2. ASSUME NEW u \in Task, NEW b, NEW d, Park(u, b, d), state[u] # "canceled"
          PROVE  Kept
        BY <1>1, <1>2 DEF Park
    <1>3. ASSUME NEW st \in [Task -> TaskState], NEW bk \in [Task -> Blocker], NEW rl, NEW bl,
                 NEW ex, Links(bl, "blocked", st), Schedule(st, rl, bl, bk, ex),
                 freed' = freed, state[t] = "canceled" => st[t] = "canceled"
          PROVE  Kept
        BY <1>3 DEF Schedule, Links
    <1>4. CASE Tick
        <2>1. ASSUME NEW u \in Task
              PROVE  Nearer(blocker[u]) \in Blocker
            <3>1. blocker[u] \in Blocker
                BY DEF IInv, TypeOK
            <3> QED
                BY <3>1 DEF Nearer, Blocker, Forever
        <2> QED
            BY <1>1, <1>3, <1>4, <2>1, BothLink DEF Tick
    <1>5. CASE \E u \in Task : KernelStep(u)
        <2>1. PICK u \in Task : KernelStep(u)
            BY <1>5
        <2>2. CASE Yield(u)
            BY <1>1, <1>3, <2>2, BothLink DEF Yield, IInv, TypeOK
        <2>3. CASE Resume(u)
            BY <2>3 DEF Resume
        <2>4. CASE LaunchGo(u)
            <3>1. state[child[u]] = "none" /\ state' = [state EXCEPT ![child[u]] = "running"]
                  /\ freed' = freed
                BY <2>4 DEF LaunchGo, At, IInv, LaunchedIsUnknown, Loading, histVars
            <3> QED
                BY <1>1, <3>1
        <2>5. CASE LaunchFail(u)
            BY <1>1, <2>5 DEF LaunchFail, Destroy
        <2>6. CASE LoadBlocks(u)
            BY <1>2, <2>6, RunningTask DEF LoadBlocks, At, IInv, KernelTasks
        <2>7. CASE GcStep
            BY <1>1, <1>2, <2>7 DEF GcStep, GcSleep, GcRetain, GcRelease, GcDestroy, Destroy, IInv, KernelTasks
        <2>8. CASE SystemStep
            BY <1>1, <1>2, <2>8 DEF SystemStep, WaitForGoneInit, Wait, LaunchBegin, IInv, KernelTasks
        <2> QED
            BY <2>1, <2>2, <2>3, <2>4, <2>5, <2>6, <2>7, <2>8 DEF KernelStep
    <1>6. CASE UserStep
        <2>1. PICK u \in User :
                  \/ \E d \in Delay : Sleep(u, d)
                  \/ \E d \in Delay \cup {Forever} : Poll(u, d)
                  \/ \E x \in Task : Wait(u, x) \/ LaunchBegin(u, x) \/ Clone(u, x) \/ Cancel(u, x)
                  \/ \E v \in ExitValue : Exit(u, v)
                  \/ Consume(u)
            BY <1>6 DEF UserStep
        <2>2. u \in Task /\ u # Idle
            OBVIOUS
        <2>3. At(u, "run") => state[u] = "running"
            BY <2>2, RunningTask
        <2>4. CASE \/ \E d \in Delay : Sleep(u, d)
                   \/ \E d \in Delay \cup {Forever} : Poll(u, d)
            BY <1>2, <2>2, <2>3, <2>4 DEF Sleep, Poll, Calling
        <2>5. CASE \E x \in Task : Wait(u, x)
            <3>1. At(u, "run")
                BY <2>5 DEF Wait, Calling
            <3> QED
                BY <1>2, <2>2, <2>3, <2>5, <3>1 DEF Wait
        <2>6. CASE \E x \in Task : LaunchBegin(u, x)
            BY <2>6 DEF LaunchBegin
        <2>7. CASE \E x \in Task : Clone(u, x)
            BY <1>1, <2>7, NewIsUser DEF Clone, TakeId
        <2>8. ASSUME NEW v, NEW frames, CancelRunning(u, v, frames)
              PROVE  Kept
            <3> DEFINE st == [state EXCEPT ![u] = "canceled"]
            <3>1. /\ Schedule(st, RunListAfter(u, "canceled"), BlockListAfter(u, "canceled"),
                              blocker, exit')
                  /\ freed' = freed
                BY <2>8 DEF CancelRunning
            <3>2. st \in [Task -> TaskState]
                BY <1>1 DEF TaskState
            <3>3. Links(BlockListAfter(u, "canceled"), "blocked", st)
                BY <1>1, <2>2, BothLink, ListAfterLinks DEF BlockListAfter
            <3>4. state[t] = "canceled" => st[t] = "canceled"
                BY <1>1
            <3> HIDE DEF st
            <3> QED
                BY <1>3, <3>1, <3>2, <3>3, <3>4 DEF IInv, TypeOK
        <2>9. CASE \E v \in ExitValue : Exit(u, v)
            BY <2>8, <2>9 DEF Exit
        <2>10. CASE \E x \in Task : Cancel(u, x)
            BY <1>1, <2>8, <2>10 DEF Cancel
        <2>11. CASE Consume(u)
            BY <2>11 DEF Consume
        <2> QED
            BY <2>1, <2>4, <2>5, <2>6, <2>7, <2>9, <2>10, <2>11
    <1>7. CASE BecomeReady \/ Stopped
        BY <1>7 DEF BecomeReady, Stopped, vars
    <1> QED
        BY <1>4, <1>5, <1>6, <1>7 DEF Next

(* Nothing revives a canceled task before the collector frees it, and      *)
(* nothing a freed one, unless a process names a task that is still being  *)
(* launched.                                                               *)
THEOREM CanceledCorrect == Spec => CanceledIsFinal
    <1>1. IInv /\ IInv' /\ [Next]_vars =>
              [~guessed' =>
                  \A t \in Task :
                      /\ state[t] = "canceled" => state'[t] = "canceled" \/ t \in freed'
                      /\ t \in freed => t \in freed' /\ state'[t] = "none"]_vars
        BY CanceledStep
    <1> QED
        BY <1>1, Invariance, PTL DEF Spec, CanceledIsFinal
-----------------------------------------------------------------------------
(* The order of two tasks that stay in the run list, and who is executed.  *)
InTurn(l, m, t, u) ==
    t \in m.items /\ u \in m.items /\ <<t, u>> \in l.before => <<t, u>> \in m.before

(* scheduler_did_change_task_state keeps the order of the other tasks. *)
LEMMA ListAfterInTurn ==
    ASSUME NEW l \in ListOver(Task), NEW s, NEW x, NEW old, NEW new, NEW t, NEW u
    PROVE  InTurn(l, ListAfter(l, s, x, old, new), t, u)
    BY DEF InTurn, ListAfter, ListPush, ListRemove, ListRemoveAll

(* schedule() moves a task behind another only to execute it, and does not *)
(* execute the one behind.                                                 *)
LEMMA ScheduleInTurn ==
    ASSUME NEW st \in [Task -> TaskState], NEW rl, NEW bl, NEW bk, NEW ex,
           Links(rl, "running", st), Links(bl, "blocked", st),
           Schedule(st, rl, bl, bk, ex), NEW t \in rl.items, NEW u \in rl.items,
           t \in runList'.items, u \in runList'.items, <<t, u>> \in rl.before
    PROVE  /\ <<t, u>> \in runList'.before \/ running' = t
           /\ running' # u
    <1> DEFINE woken == {x \in bl.items : CanUnblock(st, bk[x]) \/ TimedOut(bk[x])}
               queue == ListPushEach(rl, bl, woken)
    <1>1. \/ queue.items = {} /\ running' = Idle /\ runList' = queue
          \/ \E h \in ListHeads(queue) : running' = h /\ runList' = ListRotate(queue, h)
        BY DEF Schedule
    <1>2. woken \subseteq bl.items /\ woken \cap rl.items = {}
        BY DEF Links
    <1>3. <<t, u>> \in queue.before /\ t \in queue.items /\ u \in queue.items
        BY DEF ListPushEach
    <1>4. IsTaskList(queue)
        <2> HIDE DEF woken
        <2> QED
            BY <1>2, PushEachIsTaskList DEF Links
    <1> HIDE DEF woken, queue
    <1>5. PICK h \in ListHeads(queue) : running' = h /\ runList' = ListRotate(queue, h)
        BY <1>1, <1>3
    <1>6. h # u
        BY <1>3, <1>4 DEF ListHeads, IsTaskList
    <1>7. h # t => <<t, u>> \in runList'.before
        BY <1>3, <1>5, <1>6 DEF ListRotate, ListPushback, ListRemove, ListRemoveAll
    <1> QED
        BY <1>5, <1>6, <1>7

(* Round robin, step by step. *)
LEMMA OvertakingStep ==
    ASSUME IInv, IInv', Next, NEW t \in runList.items \cap runList'.items,
           NEW u \in runList.items \cap runList'.items, <<t, u>> \in runList.before
    PROVE  /\ <<t, u>> \in runList'.before \/ running' = t
           /\ running' = u => running = u
    <1> USE Constants
    <1> DEFINE Fair == /\ <<t, u>> \in runList'.before \/ running' = t
                       /\ running' = u => running = u
    <1>1. /\ state \in [Task -> TaskState] /\ runList \in ListOver(Task)
          /\ Links(runList, "running", state) /\ Links(blockList, "blocked", state)
        BY BothLink DEF IInv, TypeOK
    <1>2. ASSUME NEW x, NEW new, runList' = RunListAfter(x, new), running' = running
          PROVE  Fair
        BY <1>1, <1>2, ListAfterInTurn DEF InTurn, RunListAfter
    <1>3. ASSUME UNCHANGED <<runList, running>>
          PROVE  Fair
        BY <1>3
    <1>4. ASSUME NEW x, NEW b, NEW d, Park(x, b, d)
          PROVE  Fair
        BY <1>2, <1>4 DEF Park
    <1>5. ASSUME NEW x, Destroy(x), running' = running
          PROVE  Fair
        BY <1>2, <1>5 DEF Destroy
    <1>6. CASE Tick
        BY <1>1, <1>6, ScheduleInTurn DEF Tick
    <1>7. CASE \E x \in Task : KernelStep(x)
        <2>1. PICK x \in Task : KernelStep(x)
            BY <1>7
        <2>2. CASE Yield(x)
            BY <1>1, <2>2, ScheduleInTurn DEF Yield
        <2>3. CASE Resume(x)
            BY <1>3, <2>3 DEF Resume, listVars
        <2>4. CASE LaunchGo(x)
            BY <1>2, <2>4 DEF LaunchGo
        <2>5. CASE LaunchFail(x)
            BY <1>5, <2>5 DEF LaunchFail
        <2>6. CASE LoadBlocks(x)
            BY <1>4, <2>6 DEF LoadBlocks
        <2>7. CASE GcStep
            BY <1>3, <1>4, <1>5, <2>7 DEF GcStep, GcSleep, GcRetain, GcRelease, GcDestroy, listVars
        <2>8. CASE SystemStep
            BY <1>3, <1>4, <2>8 DEF SystemStep, WaitForGoneInit, Wait, LaunchBegin, listVars
        <2> QED
            BY <2>1, <2>2, <2>3, <2>4, <2>5, <2>6, <2>7, <2>8 DEF KernelStep
    <1>8. CASE UserStep
        <2>1. PICK x \in User :
                  \/ \E d \in Delay : Sleep(x, d)
                  \/ \E d \in Delay \cup {Forever} : Poll(x, d)
                  \/ \E y \in Task : Wait(x, y) \/ LaunchBegin(x, y) \/ Clone(x, y) \/ Cancel(x, y)
                  \/ \E v \in ExitValue : Exit(x, v)
                  \/ Consume(x)
            BY <1>8 DEF UserStep
        <2>2. CASE \/ \E d \in Delay : Sleep(x, d)
                   \/ \E d \in Delay \cup {Forever} : Poll(x, d)
            BY <1>4, <2>2 DEF Sleep, Poll
        <2>3. CASE \E y \in Task : Wait(x, y)
            BY <1>3, <1>4, <2>3 DEF Wait, listVars
        <2>4. CASE \E y \in Task : LaunchBegin(x, y) \/ Clone(x, y)
            BY <1>2, <1>3, <2>4 DEF LaunchBegin, Clone, listVars
        <2>5. ASSUME NEW v, NEW frames, At(x, "run"), CancelRunning(x, v, frames)
              PROVE  Fair
            <3> DEFINE st == [state EXCEPT ![x] = "canceled"]
                       rl == RunListAfter(x, "canceled")
            <3>1. Schedule(st, rl, BlockListAfter(x, "canceled"), blocker, exit')
                BY <2>5 DEF CancelRunning
            <3>2. st \in [Task -> TaskState]
                BY <1>1 DEF TaskState
            <3>3. Links(rl, "running", st) /\ Links(BlockListAfter(x, "canceled"), "blocked", st)
                BY <1>1, ListAfterLinks DEF RunListAfter, BlockListAfter
            <3>4. running = x
                BY <2>5 DEF At
            <3> HIDE DEF st, rl
            <3>5. CASE t \in rl.items /\ u \in rl.items
                <4>1. <<t, u>> \in rl.before
                    BY <1>1, <3>5, ListAfterInTurn DEF InTurn, rl, RunListAfter
                <4> QED
                    BY <3>1, <3>2, <3>3, <3>5, <4>1, ScheduleInTurn
            <3>6. CASE ~(t \in rl.items /\ u \in rl.items)
                <4>1. \A y \in runList.items : y # x => y \in rl.items
                    BY <1>1 DEF rl, RunListAfter, ListAfter, ListRemove, ListRemoveAll, ListPush
                <4>2. x \notin runList'.items
                    <5>1. state'[x] = "canceled"
                        BY <1>1, <3>1, <3>3 DEF Schedule, st, Links
                    <5>2. runList'.items = {y \in Task : state'[y] = "running"}
                        BY DEF IInv, ListsMatchStates
                    <5> QED
                        BY <5>1, <5>2
                <4> QED
                    BY <3>6, <4>1, <4>2
            <3> QED
                BY <3>5, <3>6
        <2>6. CASE \E v \in ExitValue : Exit(x, v)
            BY <2>5, <2>6 DEF Exit, Calling
        <2>7. CASE \E y \in Task : Cancel(x, y)
            BY <1>2, <2>5, <2>7 DEF Cancel, Calling
        <2>8. CASE Consume(x)
            BY <1>3, <2>8 DEF Consume, listVars
        <2> QED
            BY <2>1, <2>2, <2>3, <2>4, <2>6, <2>7, <2>8
    <1>9. CASE BecomeReady \/ Stopped
        BY <1>3, <1>9 DEF BecomeReady, Stopped, vars, listVars
    <1> QED
        BY <1>6, <1>7, <1>8, <1>9 DEF Next

(* The runnable tasks take turns: none is overtaken but by its own turn. *)
THEOREM NoOvertakingCorrect == Spec => NoOvertaking
    <1>1. IInv /\ IInv' /\ [Next]_vars =>
              [\A t, u \in runList.items \cap runList'.items :
                  <<t, u>> \in runList.before =>
                      /\ <<t, u>> \in runList'.before \/ running' = t
                      /\ running' = u => running = u]_vars
        BY OvertakingStep
    <1> QED
        BY <1>1, Invariance, PTL DEF Spec, NoOvertaking
-----------------------------------------------------------------------------
(* Blockers whose waits have a target. *)
WaitsForTasks(bk) == \A t \in Task : bk[t].kind = "wait" => bk[t].target \in Task

(* The states st, the blockers bk and the exit values ex owe each waiter   *)
(* the first value fi of its target, whether it was woken up or will be.   *)
Owed(st, bk, ex, fi) ==
    /\ \A x \in Task : st[x] = "canceled" => fi[x] # NoValue
    /\ \A x \in Task : st[x] # "canceled" /\ x \notin freed => fi[x] = NoValue
    /\ \A t \in Task :
           bk[t].kind = "wait" /\ st[bk[t].target] = "canceled" /\ st[t] = "blocked" =>
               ex[bk[t].target] = fi[bk[t].target]
    /\ \A t \in Task : bk[t].kind = "wait" /\ bk[t].result = "unblocked" =>
           bk[t].value = fi[bk[t].target] /\ fi[bk[t].target] # NoValue

(* schedule() gives each waiter it wakes up the value of its target, and   *)
(* leaves nobody blocked on a canceled task.                               *)
LEMMA ScheduleFirst ==
    ASSUME NEW st \in [Task -> TaskState], NEW bk \in [Task -> Blocker], NEW rl, NEW bl, NEW ex,
           Links(bl, "blocked", st), Schedule(st, rl, bl, bk, ex), WaitsForTasks(bk),
           freed' = freed,
           Owed(st, bk, ex, first')
    PROVE  FirstExit'
    <1> DEFINE woken == {t \in bl.items : CanUnblock(st, bk[t]) \/ TimedOut(bk[t])}
    <1>1. /\ state' = [t \in Task |-> IF t \in woken THEN "running" ELSE st[t]]
          /\ blocker' = [t \in Task |-> IF t \in woken THEN Woken(st, ex, bk[t]) ELSE bk[t]]
        BY DEF Schedule
    <1>2. \A t \in Task : t \in bl.items <=> st[t] = "blocked"
        BY DEF Links
    <1>3. \A t \in Task : state'[t] = "canceled" <=> st[t] = "canceled"
        BY <1>1, <1>2
    <1>4. ASSUME NEW t \in Task, state'[t] = "blocked", blocker'[t].kind = "wait",
                 state'[blocker'[t].target] = "canceled"
          PROVE  FALSE
        BY <1>1, <1>2, <1>3, <1>4 DEF WaitsForTasks, CanUnblock
    <1>5. ASSUME NEW t \in Task, blocker'[t].kind = "wait", blocker'[t].result = "unblocked"
          PROVE  blocker'[t].value = first'[blocker'[t].target] /\ first'[blocker'[t].target] # NoValue
        <2>1. bk[t] \in Blocker
            OBVIOUS
        <2>2. CASE t \in woken
            <3>1. blocker'[t] = Woken(st, ex, bk[t]) /\ st[t] = "blocked"
                BY <1>1, <1>2, <2>2
            <3>2. /\ blocker'[t].kind = bk[t].kind /\ blocker'[t].target = bk[t].target
                  /\ blocker'[t].result = IF CanUnblock(st, bk[t]) THEN "unblocked" ELSE "timeout"
                  /\ blocker'[t].value = IF CanUnblock(st, bk[t]) /\ bk[t].kind = "wait"
                                         THEN ex[bk[t].target] ELSE bk[t].value
                BY <2>1, <3>1 DEF Woken, Blocker
            <3>3. CanUnblock(st, bk[t]) /\ bk[t].kind = "wait"
                BY <1>5, <3>2
            <3>4. bk[t].target \in Task /\ st[bk[t].target] = "canceled"
                BY <3>3 DEF CanUnblock
            <3> QED
                BY <3>1, <3>2, <3>3, <3>4 DEF Owed
        <2>3. CASE t \notin woken
            BY <1>1, <1>5, <2>3 DEF Owed
        <2> QED
            BY <2>2, <2>3
    <1> HIDE DEF woken
    <1>6. \A x \in Task : x \notin freed' => x \notin freed
        OBVIOUS
    <1> QED
        BY <1>3, <1>4, <1>5, <1>6 DEF FirstExit, Owed

(* A step that stores no exit value, cancels nothing and makes nobody wait *)
(* for what is canceled.                                                   *)
LEMMA FirstExitKept ==
    ASSUME FirstExit, first' = first, guessed => guessed',
           ~guessed' => \A x \in Task :
               /\ state'[x] = "canceled" => state[x] = "canceled"
               /\ state'[x] # "canceled" /\ x \notin freed' => state[x] # "canceled" /\ x \notin freed,
           ~guessed' => \A t \in Task : blocker'[t].kind = "wait" =>
               \/ blocker'[t] = blocker[t]
                  /\ (state'[t] = "blocked" => state[t] = "blocked")
                  /\ (state'[blocker[t].target] = "canceled" =>
                          state[blocker[t].target] = "canceled"
                          /\ exit'[blocker[t].target] = exit[blocker[t].target])
               \/ blocker'[t].result = "none" /\ state'[blocker'[t].target] # "canceled"
    PROVE  FirstExit'
    BY DEF FirstExit

(* hj_process_cancel of another task stores FAILURE, and nobody has copied *)
(* a value from a task that was not canceled before.                       *)
LEMMA CancelOtherFirst ==
    ASSUME IInv, FirstExit, NEW u \in User, NEW x \in Task, x # u, Cancel(u, x)
    PROVE  FirstExit'
    <1> USE Constants
    <1>1. /\ state \in [Task -> TaskState] /\ guessed \in BOOLEAN
          /\ exit \in [Task -> ExitValue \cup {NoValue}]
          /\ first \in [Task -> ExitValue \cup {NoValue}]
          /\ WaitsForTasks(blocker)
        BY DEF IInv, TypeOK, UnusedIds, WaitsForTasks
    <1>2. /\ state' = [state EXCEPT ![x] = "canceled"]
          /\ exit' = [exit EXCEPT ![x] = FAILURE]
          /\ first' = [first EXCEPT ![x] = IF @ = NoValue THEN FAILURE ELSE @]
          /\ x \in tasks
          /\ ~guessed' => ~guessed
          /\ UNCHANGED <<blocker, freed>>
        BY DEF Cancel, SetExit
    <1>3. x \notin freed
        BY <1>2 DEF IInv, FreedIsGone
    <1>4. CASE guessed'
        BY <1>4 DEF FirstExit
    <1>5. CASE ~guessed'
        <2>1. ~guessed
            BY <1>2, <1>5
        <2>2. /\ first'[x] # NoValue
              /\ state[x] # "canceled" => first[x] = NoValue /\ first'[x] = FAILURE
              /\ state[x] = "canceled" => first'[x] = first[x]
              /\ state'[x] = "canceled" /\ exit'[x] = FAILURE
              /\ \A y \in Task : y # x => /\ first'[y] = first[y] /\ exit'[y] = exit[y]
                                          /\ state'[y] = state[y]
            BY <1>1, <1>2, <1>3, <2>1, SchedulerAssumption DEF FirstExit
        <2>3. /\ \A y \in Task : state'[y] = "canceled" => first'[y] # NoValue
              /\ \A y \in Task : state'[y] # "canceled" /\ y \notin freed' => first'[y] = NoValue
            BY <1>2, <2>1, <2>2 DEF FirstExit
        <2>4. ASSUME NEW t \in Task, state'[t] = "blocked", blocker'[t].kind = "wait",
                     state'[blocker'[t].target] = "canceled"
              PROVE  exit'[blocker'[t].target] = FAILURE /\ first'[blocker'[t].target] = FAILURE
            <3>1. t # x /\ state[t] = "blocked" /\ blocker'[t] = blocker[t]
                  /\ blocker[t].target \in Task
                BY <1>1, <1>2, <2>2, <2>4 DEF WaitsForTasks
            <3> QED
                BY <1>2, <2>1, <2>2, <2>4, <3>1 DEF FirstExit
        <2>5. ASSUME NEW t \in Task, blocker'[t].kind = "wait", blocker'[t].result = "unblocked"
              PROVE  /\ blocker'[t].value = first'[blocker'[t].target]
                     /\ first'[blocker'[t].target] # NoValue
            BY <1>1, <1>2, <2>1, <2>2, <2>5 DEF FirstExit, WaitsForTasks
        <2> QED
            BY <2>3, <2>4, <2>5 DEF FirstExit
    <1> QED
        BY <1>4, <1>5

LEMMA FirstExitStep ==
    ASSUME IInv, IInv', FirstExit, Next
    PROVE  FirstExit'
    <1> USE Constants
    <1>1. /\ state \in [Task -> TaskState] /\ blocker \in [Task -> Blocker]
          /\ Links(runList, "running", state) /\ Links(blockList, "blocked", state)
          /\ exit \in [Task -> ExitValue \cup {NoValue}]
          /\ first \in [Task -> ExitValue \cup {NoValue}]
          /\ WaitsForTasks(blocker)
        BY BothLink DEF IInv, TypeOK, UnusedIds, WaitsForTasks
    <1>2. ASSUME UNCHANGED <<state, blocker, freed, exit, first>>, guessed => guessed'
          PROVE  FirstExit'
        BY <1>2, FirstExitKept
    <1>3. ASSUME NEW u \in Task, NEW b \in Blocker, NEW d, Park(u, b, d),
                 state[u] # "canceled", b.result = "none",
                 b.kind = "wait" => b.target \in Task /\ state[b.target] # "canceled",
                 guessed => guessed'
          PROVE  FirstExit'
        <2>1. /\ state' = [state EXCEPT ![u] = "blocked"] /\ blocker' = [blocker EXCEPT ![u] = b]
              /\ UNCHANGED <<freed, exit, first>>
            BY <1>3 DEF Park
        <2>2. \A t \in Task : blocker'[t].kind = "wait" =>
                 \/ t # u /\ blocker'[t] = blocker[t] /\ state'[t] = state[t]
                    /\ blocker[t].target \in Task
                 \/ blocker'[t].result = "none" /\ state'[blocker'[t].target] # "canceled"
            BY <1>1, <1>3, <2>1 DEF WaitsForTasks
        <2>3. \A x \in Task : state'[x] = "canceled" <=> state[x] = "canceled"
            BY <1>1, <1>3, <2>1
        <2> QED
            BY <1>3, <2>1, <2>2, <2>3, FirstExitKept
    <1>4. ASSUME NEW x \in Task, Destroy(x), UNCHANGED <<first, guessed>>
          PROVE  FirstExit'
        <2>1. /\ state' = [state EXCEPT ![x] = "none"] /\ freed' = freed \cup {x}
              /\ blocker' = [blocker EXCEPT ![x] = NoBlocker]
              /\ exit' = [exit EXCEPT ![x] = NoValue]
            BY <1>4 DEF Destroy
        <2>2. \A t \in Task : blocker'[t].kind = "wait" =>
                 /\ blocker'[t] = blocker[t]
                 /\ state'[t] = state[t]
                 /\ state'[blocker[t].target] = "canceled" =>
                        state[blocker[t].target] = "canceled"
                        /\ exit'[blocker[t].target] = exit[blocker[t].target]
            BY <1>1, <2>1 DEF WaitsForTasks, NoBlocker
        <2>3. \A y \in Task :
                  /\ state'[y] = "canceled" => state[y] = "canceled"
                  /\ y \notin freed' => y \notin freed /\ state'[y] = state[y]
            BY <1>1, <2>1
        <2> QED
            BY <1>4, <2>2, <2>3, FirstExitKept
    <1>5. ASSUME NEW x \in Task, state' = [state EXCEPT ![x] = "running"],
                 ~guessed' => state[x] = "none" /\ x \notin freed,
                 UNCHANGED <<blocker, freed, exit, first, guessed>>
          PROVE  FirstExit'
        <2>1. ~guessed' => \A y \in Task :
                  /\ state'[y] = "canceled" <=> state[y] = "canceled"
                  /\ state'[y] = "blocked" => state[y] = "blocked"
            BY <1>1, <1>5
        <2> QED
            BY <1>1, <1>5, <2>1, FirstExitKept DEF WaitsForTasks
    <1>6. ASSUME NEW bk \in [Task -> Blocker], WaitsForTasks(bk),
                 Schedule(state, runList, blockList, bk, exit),
                 \A u \in Task : /\ bk[u].kind = blocker[u].kind /\ bk[u].target = blocker[u].target
                                 /\ bk[u].result = blocker[u].result /\ bk[u].value = blocker[u].value,
                 UNCHANGED <<freed, first, guessed>>
          PROVE  FirstExit'
        <2>1. CASE guessed
            BY <1>6, <2>1 DEF FirstExit
        <2>2. CASE ~guessed
            <3>1. Owed(state, bk, exit, first')
                BY <1>6, <2>2 DEF FirstExit, Owed
            <3> QED
                BY <1>1, <1>6, <3>1, ScheduleFirst
        <2> QED
            BY <2>1, <2>2, <1>1 DEF IInv, TypeOK
    <1>9. ASSUME NEW u \in Task, NEW x \in Task, Wait(u, x)
          PROVE  FirstExit'
        <2>1. At(u, "run") /\ u # Idle
            BY <1>9 DEF Wait, Calling
        <2>2. state[u] # "canceled"
            BY <2>1, RunningTask
        <2>3. CASE state[x] = "canceled"
            BY <1>2, <1>9, <2>3 DEF Wait
        <2>4. CASE state[x] # "canceled"
            <3>1. WaitBlocker(x) \in Blocker /\ WaitBlocker(x).result = "none"
                  /\ WaitBlocker(x).target = x
                BY DEF WaitBlocker, NoBlocker, Blocker, Forever
            <3> QED
                BY <1>1, <1>3, <1>9, <2>2, <2>4, <3>1 DEF Wait
        <2> QED
            BY <2>3, <2>4
    <1>10. ASSUME NEW u \in Task, NEW v \in ExitValue, NEW frames, CancelRunning(u, v, frames),
                  state[u] = "running", u \notin freed
           PROVE  FirstExit'
        <2> DEFINE st == [state EXCEPT ![u] = "canceled"]
        <2>1. /\ Schedule(st, RunListAfter(u, "canceled"), BlockListAfter(u, "canceled"),
                          blocker, exit')
              /\ UNCHANGED <<freed, guessed>>
              /\ exit' = [exit EXCEPT ![u] = v]
              /\ first' = [first EXCEPT ![u] = IF @ = NoValue THEN v ELSE @]
            BY <1>10 DEF CancelRunning, SetExit
        <2>2. st \in [Task -> TaskState]
            BY <1>1 DEF TaskState
        <2>3. Links(BlockListAfter(u, "canceled"), "blocked", st)
            BY <1>1, BothLink, ListAfterLinks DEF BlockListAfter
        <2>4. /\ st[u] = "canceled"
              /\ \A x \in Task : x # u => st[x] = state[x]
            BY <1>1
        <2> HIDE DEF st
        <2>5. CASE guessed
            BY <2>1, <2>5 DEF FirstExit
        <2>6. CASE ~guessed
            <3>1. first[u] = NoValue /\ v # NoValue
                BY <1>10, <2>6, SchedulerAssumption DEF FirstExit
            <3>2. /\ first'[u] = v /\ exit'[u] = v
                  /\ \A x \in Task : x # u => first'[x] = first[x] /\ exit'[x] = exit[x]
                BY <1>1, <2>1, <3>1
            <3>3. /\ \A x \in Task : st[x] = "canceled" => first'[x] # NoValue
                  /\ \A x \in Task : st[x] # "canceled" /\ x \notin freed => first'[x] = NoValue
                BY <2>4, <2>6, <3>1, <3>2 DEF FirstExit
            <3>4. \A t \in Task :
                      blocker[t].kind = "wait" /\ st[blocker[t].target] = "canceled"
                          /\ st[t] = "blocked" =>
                          exit'[blocker[t].target] = first'[blocker[t].target]
                BY <1>1, <2>4, <2>6, <3>1, <3>2 DEF FirstExit, WaitsForTasks
            <3>5. \A t \in Task : blocker[t].kind = "wait" /\ blocker[t].result = "unblocked" =>
                      /\ blocker[t].value = first'[blocker[t].target]
                      /\ first'[blocker[t].target] # NoValue
                BY <1>1, <2>6, <3>1, <3>2 DEF FirstExit, WaitsForTasks
            <3>6. Owed(st, blocker, exit', first')
                BY <3>3, <3>4, <3>5 DEF Owed
            <3> QED
                BY <1>1, <2>1, <2>2, <2>3, <3>6, ScheduleFirst
        <2> QED
            BY <2>5, <2>6 DEF IInv, TypeOK
    <1>7. CASE Tick
        <2> DEFINE bk == [u \in Task |-> Nearer(blocker[u])]
        <2>1. ASSUME NEW u \in Task
              PROVE  /\ Nearer(blocker[u]) \in Blocker
                     /\ Nearer(blocker[u]).kind = blocker[u].kind
                     /\ Nearer(blocker[u]).target = blocker[u].target
                     /\ Nearer(blocker[u]).result = blocker[u].result
                     /\ Nearer(blocker[u]).value = blocker[u].value
            <3>1. blocker[u] \in Blocker
                BY <1>1
            <3> QED
                BY <3>1 DEF Nearer, Blocker, Forever
        <2>2. /\ bk \in [Task -> Blocker]
              /\ \A u \in Task : /\ bk[u].kind = blocker[u].kind /\ bk[u].target = blocker[u].target
                                 /\ bk[u].result = blocker[u].result /\ bk[u].value = blocker[u].value
            BY <2>1
        <2>3. /\ Schedule(state, runList, blockList, bk, exit)
              /\ UNCHANGED <<freed, first, guessed>>
            BY <1>7 DEF Tick
        <2> HIDE DEF bk
        <2>4. WaitsForTasks(bk)
            BY <1>1, <2>2 DEF WaitsForTasks
        <2> QED
            BY <1>6, <2>2, <2>3, <2>4
    <1>8. CASE \E u \in Task : KernelStep(u)
        <2>1. PICK u \in Task : KernelStep(u)
            BY <1>8
        <2>2. CASE Yield(u)
            <3>1. Schedule(state, runList, blockList, blocker, exit) /\ UNCHANGED <<freed, first, guessed>>
                BY <2>2 DEF Yield
            <3> QED
                BY <1>1, <1>6, <3>1
        <2>3. CASE Resume(u)
            <3>1. /\ blocker' = [blocker EXCEPT ![u] = NoBlocker]
                  /\ UNCHANGED <<state, freed, exit, first, guessed>>
                BY <2>3 DEF Resume, histVars
            <3> QED
                BY <1>1, <3>1, FirstExitKept DEF NoBlocker
        <2>4. CASE LaunchGo(u)
            <3>1. At(u, "load") /\ Loading(u)
                BY <2>4 DEF LaunchGo, At, Loading
            <3>2. child[u] \in Task /\ child[u] \in User
                BY <3>1 DEF IInv, LaunchedOnce
            <3>3. ~guessed => state[child[u]] = "none" /\ child[u] \notin freed
                BY <3>1 DEF IInv, LaunchedIsUnknown, FreedIsGone
            <3> QED
                BY <1>5, <2>4, <3>2, <3>3 DEF LaunchGo, histVars
        <2>5. CASE LaunchFail(u)
            <3>1. Loading(u)
                BY <2>5 DEF LaunchFail, At, Loading
            <3>2. child[u] \in Task
                BY <3>1 DEF IInv, LaunchedOnce
            <3> QED
                BY <1>4, <2>5, <3>2 DEF LaunchFail, histVars
        <2>6. CASE LoadBlocks(u)
            <3>1. ReadBlocker("load") \in Blocker /\ ReadBlocker("load").result = "none"
                  /\ ReadBlocker("load").kind # "wait"
                BY DEF ReadBlocker, NoBlocker, Blocker
            <3>2. state[u] # "canceled"
                BY <2>6, RunningTask DEF LoadBlocks, At, IInv, KernelTasks
            <3> QED
                BY <1>3, <2>6, <3>1, <3>2 DEF LoadBlocks
        <2>7. CASE GcSleep
            <3>1. TimeBlocker(GcPeriod, "iterate") \in Blocker
                  /\ TimeBlocker(GcPeriod, "iterate").result = "none"
                  /\ TimeBlocker(GcPeriod, "iterate").kind # "wait"
                BY SchedulerAssumption DEF TimeBlocker, NoBlocker, Blocker
            <3> QED
                BY <1>3, <2>7, <3>1 DEF GcSleep, IInv, KernelTasks
        <2>8. CASE GcRetain \/ GcRelease
            BY <1>2, <2>8 DEF GcRetain, GcRelease, histVars
        <2>9. CASE \E x \in Task : GcDestroy(x)
            BY <1>4, <2>9 DEF GcDestroy, histVars
        <2>10. CASE WaitForGoneInit
            BY <1>2, <2>10 DEF WaitForGoneInit, histVars
        <2>11. CASE \E x \in Task : Wait(System, x)
            BY <1>9, <2>11
        <2>12. CASE \E x \in Task : LaunchBegin(System, x)
            BY <1>2, <2>12 DEF LaunchBegin, histVars
        <2> QED
            BY <2>1, <2>2, <2>3, <2>4, <2>5, <2>6, <2>7, <2>8, <2>9, <2>10, <2>11, <2>12
               DEF KernelStep, GcStep, SystemStep
    <1>11. CASE UserStep
        <2>1. PICK u \in User :
                  \/ \E d \in Delay : Sleep(u, d)
                  \/ \E d \in Delay \cup {Forever} : Poll(u, d)
                  \/ \E x \in Task : Wait(u, x) \/ LaunchBegin(u, x) \/ Clone(u, x) \/ Cancel(u, x)
                  \/ \E v \in ExitValue : Exit(u, v)
                  \/ Consume(u)
            BY <1>11 DEF UserStep
        <2>2. u \in Task /\ u # Idle
            OBVIOUS
        <2>3. At(u, "run") => state[u] = "running" /\ u \notin freed
            BY <2>2, RunningTask
        <2>4. CASE \E d \in Delay : Sleep(u, d)
            <3>1. PICK d \in Delay : Sleep(u, d)
                BY <2>4
            <3>2. TimeBlocker(d, "run") \in Blocker /\ TimeBlocker(d, "run").result = "none"
                  /\ TimeBlocker(d, "run").kind # "wait"
                BY SchedulerAssumption DEF TimeBlocker, NoBlocker, Blocker
            <3> QED
                BY <1>3, <2>2, <2>3, <3>1, <3>2 DEF Sleep, Calling
        <2>5. CASE \E d \in Delay \cup {Forever} : Poll(u, d)
            <3>1. PICK d \in Delay \cup {Forever} : Poll(u, d)
                BY <2>5
            <3>2. SelectBlocker(d) \in Blocker /\ SelectBlocker(d).result = "none"
                  /\ SelectBlocker(d).kind # "wait"
                BY SchedulerAssumption DEF SelectBlocker, NoBlocker, Blocker
            <3> QED
                BY <1>3, <2>2, <2>3, <3>1, <3>2 DEF Poll, Calling
        <2>6. CASE \E x \in Task : Wait(u, x)
            BY <1>9, <2>2, <2>6
        <2>7. CASE \E x \in Task : LaunchBegin(u, x)
            BY <1>2, <2>7 DEF LaunchBegin, histVars
        <2>8. CASE \E x \in Task : Clone(u, x)
            BY <1>5, <2>8, NewIsUser DEF Clone, TakeId, histVars
        <2>9. CASE \E v \in ExitValue : Exit(u, v)
            BY <1>10, <2>2, <2>3, <2>9 DEF Exit, Calling
        <2>10. CASE \E x \in Task : Cancel(u, x)
            <3>1. PICK x \in Task : Cancel(u, x)
                BY <2>10
            <3>2. CASE x = u
                BY <1>10, <2>2, <2>3, <3>1, <3>2, SchedulerAssumption DEF Cancel, Calling
            <3>3. CASE x # u
                BY <3>1, <3>3, CancelOtherFirst
            <3> QED
                BY <3>2, <3>3
        <2>11. CASE Consume(u)
            BY <1>2, <2>11 DEF Consume, histVars
        <2> QED
            BY <2>1, <2>4, <2>5, <2>6, <2>7, <2>8, <2>9, <2>10, <2>11
    <1>12. CASE BecomeReady \/ Stopped
        BY <1>2, <1>12 DEF BecomeReady, Stopped, vars, histVars
    <1> QED
        BY <1>7, <1>8, <1>11, <1>12 DEF Next

(* At the start nobody has ended. *)
LEMMA InitFirstExit == Init => FirstExit
    BY DEF Init, FirstExit, NoBlocker

(* Unless a task was named while it was being launched, who has ended has  *)
(* a first exit value and who has not has none; a blocked waiter will      *)
(* still read that value, and a woken one has read it.                     *)
THEOREM FirstExitInvariance == Spec => []FirstExit
    <1>1. IInv /\ IInv' /\ FirstExit /\ [Next]_vars => FirstExit'
        <2>1. FirstExit /\ UNCHANGED vars => FirstExit'
            BY DEF FirstExit, vars, histVars, listVars, irqVars
        <2> QED
            BY <2>1, FirstExitStep
    <1> QED
        BY <1>1, InitFirstExit, Invariance, PTL DEF Spec

(* A task that is canceled has the value it was given first, or the        *)
(* FAILURE that a later cancel has stored, and so has who comes to wait    *)
(* for it then.                                                            *)
LEMMA StoredExitStep ==
    ASSUME FirstExit, StoredExit, guessed => guessed',
           \A x \in Task : first[x] # NoValue => first'[x] = first[x],
           \A x \in Task : state'[x] = "canceled" =>
               (state[x] = "canceled" /\ exit'[x] = exit[x]) \/ exit'[x] \in {first'[x], FAILURE},
           \A t \in Task : late'[t] = late[t] \/
               (late'[t].of \in Task /\ state[late'[t].of] = "canceled"
                   /\ late'[t].value = exit[late'[t].of]),
           late \in [Task -> Answer]
    PROVE  StoredExit'
    <1> SUFFICES ASSUME ~guessed, ~guessed'
                 PROVE  StoredExit'
        BY DEF StoredExit
    <1>1. \A x \in Task : state'[x] = "canceled" => exit'[x] \in {first'[x], FAILURE}
        BY DEF FirstExit, StoredExit
    <1>2. ASSUME NEW t \in Task, late'[t].of # NoTask
          PROVE  /\ late'[t].value \in {first'[late'[t].of], FAILURE}
                 /\ first'[late'[t].of] # NoValue
        <2>1. CASE late'[t] = late[t]
            <3>1. late[t].of \in Task
                BY <1>2, <2>1 DEF Answer
            <3> QED
                BY <1>2, <2>1, <3>1 DEF StoredExit
        <2>2. CASE late'[t] # late[t]
            BY <2>2 DEF FirstExit, StoredExit
        <2> QED
            BY <2>1, <2>2
    <1> QED
        BY <1>1, <1>2 DEF StoredExit

LEMMA StoredExitKept ==
    ASSUME IInv, FirstExit, StoredExit, UNCHANGED <<first, late>>, guessed => guessed',
           \A x \in Task : state'[x] = "canceled" =>
               state[x] = "canceled" /\ exit'[x] = exit[x]
    PROVE  StoredExit'
    BY StoredExitStep DEF IInv, TypeOK

LEMMA ScheduleKeepsCanceled ==
    ASSUME NEW st, NEW rl, NEW bl, NEW bk, NEW ex, Schedule(st, rl, bl, bk, ex)
    PROVE  \A x \in Task : state'[x] = "canceled" => st[x] = "canceled"
    BY DEF Schedule

LEMMA StoredExitNext ==
    ASSUME IInv, FirstExit, StoredExit, Next
    PROVE  StoredExit'
    <1> USE Constants
    <1>1. /\ state \in [Task -> TaskState] /\ late \in [Task -> Answer]
          /\ exit \in [Task -> ExitValue \cup {NoValue}]
          /\ first \in [Task -> ExitValue \cup {NoValue}]
        BY DEF IInv, TypeOK
    <1>2. ASSUME UNCHANGED <<state, exit, first, late>>, guessed => guessed'
          PROVE  StoredExit'
        BY <1>2, StoredExitKept
    <1>3. ASSUME NEW st, NEW rl, NEW bl, NEW bk, Schedule(state, rl, bl, bk, exit),
                 UNCHANGED <<exit, first, late, guessed>>
          PROVE  StoredExit'
        BY <1>3, ScheduleKeepsCanceled, StoredExitKept
    <1>4. ASSUME NEW x \in Task, NEW s \in TaskState, s # "canceled",
                 state' = [state EXCEPT ![x] = s],
                 \A y \in Task : y # x => exit'[y] = exit[y],
                 UNCHANGED <<first, late>>, guessed => guessed'
          PROVE  StoredExit'
        BY <1>1, <1>4, StoredExitKept
    <1>5. ASSUME NEW t \in Task, NEW b, NEW d, Park(t, b, d), guessed => guessed'
          PROVE  StoredExit'
        BY <1>4, <1>5 DEF Park, TaskState
    <1>6. ASSUME NEW x \in Task, Destroy(x), UNCHANGED histVars
          PROVE  StoredExit'
        BY <1>1, <1>4, <1>6 DEF Destroy, TaskState, histVars
    <1>7. ASSUME NEW t \in Task, NEW x \in Task, Wait(t, x)
          PROVE  StoredExit'
        <2>1. CASE state[x] = "canceled"
            <3>1. /\ UNCHANGED <<state, exit, first>> /\ (guessed => guessed')
                  /\ late' = [late EXCEPT ![t] = [of |-> x, value |-> exit[x]]]
                BY <1>7, <2>1 DEF Wait
            <3>2. \A u \in Task : late'[u] = late[u] \/
                      (late'[u].of = x /\ late'[u].value = exit[x])
                BY <1>1, <3>1
            <3>3. ASSUME NEW u \in Task
                  PROVE  late'[u] = late[u] \/ (late'[u].of \in Task /\ state[late'[u].of] = "canceled"
                                                 /\ late'[u].value = exit[late'[u].of])
                BY <2>1, <3>2
            <3>4. \A y \in Task : state'[y] = "canceled" =>
                      (state[y] = "canceled" /\ exit'[y] = exit[y]) \/ exit'[y] \in {first'[y], FAILURE}
                BY <3>1
            <3>5. \A y \in Task : first[y] # NoValue => first'[y] = first[y]
                BY <3>1
            <3> QED
                BY <1>1, <3>1, <3>3, <3>4, <3>5, StoredExitStep
        <2>2. CASE state[x] # "canceled"
            BY <1>5, <1>7, <2>2 DEF Wait
        <2> QED
            BY <2>1, <2>2
    <1>8. ASSUME NEW x \in Task, NEW v \in ExitValue, SetExit(x, v), late' = late,
                 guessed => guessed',
                 v = FAILURE \/ (~guessed => state[x] # "canceled" /\ x \notin freed),
                 \A y \in Task : state'[y] = "canceled" => y = x \/ state[y] = "canceled"
          PROVE  StoredExit'
        <2>1. /\ exit' = [exit EXCEPT ![x] = v]
              /\ first' = [first EXCEPT ![x] = IF first[x] = NoValue THEN v ELSE first[x]]
            BY <1>8 DEF SetExit
        <2>2. CASE guessed
            BY <1>8, <2>2 DEF StoredExit
        <2>3. CASE ~guessed
            <3>1. exit'[x] \in {first'[x], FAILURE}
                BY <1>1, <1>8, <2>1, <2>3 DEF FirstExit
            <3>2. \A y \in Task : y # x => exit'[y] = exit[y] /\ first'[y] = first[y]
                BY <1>1, <2>1
            <3>3. first[x] # NoValue => first'[x] = first[x]
                BY <1>1, <2>1
            <3> QED
                BY <1>1, <1>8, <3>1, <3>2, <3>3, StoredExitStep
        <2> QED
            BY <2>2, <2>3
    <1>9. ASSUME NEW t \in User, NEW v \in ExitValue, NEW frames, At(t, "run"),
                 CancelRunning(t, v, frames)
          PROVE  StoredExit'
        <2>1. t \in Task /\ state[t] = "running" /\ t \notin freed
            BY <1>9, RunningTask
        <2>2. /\ SetExit(t, v) /\ UNCHANGED <<late, guessed>>
              /\ Schedule([state EXCEPT ![t] = "canceled"], RunListAfter(t, "canceled"),
                          BlockListAfter(t, "canceled"), blocker, exit')
            BY <1>9 DEF CancelRunning
        <2>3. \A y \in Task : state'[y] = "canceled" => [state EXCEPT ![t] = "canceled"][y] = "canceled"
            BY <2>2, ScheduleKeepsCanceled
        <2>4. \A y \in Task : state'[y] = "canceled" => y = t \/ state[y] = "canceled"
            BY <1>1, <2>3
        <2> QED
            BY <1>8, <2>1, <2>2, <2>4
    <1>10. CASE Tick
        BY <1>3, <1>10 DEF Tick
    <1>11. CASE \E t \in Task : KernelStep(t)
        <2>1. PICK t \in Task : KernelStep(t)
            BY <1>11
        <2>2. CASE Yield(t)
            BY <1>3, <2>2 DEF Yield
        <2>3. CASE Resume(t) \/ WaitForGoneInit \/ GcRetain \/ GcRelease
                  \/ \E x \in Task : LaunchBegin(System, x)
            BY <1>2, <2>3 DEF Resume, WaitForGoneInit, GcRetain, GcRelease, LaunchBegin, histVars
        <2>4. CASE LaunchGo(t) \/ LaunchFail(t)
            <3>1. child[t] \in Task
                BY <2>4 DEF LaunchGo, LaunchFail, At, IInv, LaunchedOnce, Loading
            <3> QED
                BY <1>4, <1>6, <2>4, <3>1 DEF LaunchGo, LaunchFail, TaskState, histVars
        <2>5. CASE LoadBlocks(t)
            BY <1>5, <2>5 DEF LoadBlocks
        <2>6. CASE GcSleep
            BY <1>5, <2>6 DEF GcSleep
        <2>7. CASE \E x \in Task : GcDestroy(x)
            BY <1>6, <2>7 DEF GcDestroy
        <2>8. CASE \E x \in Task : Wait(System, x)
            BY <1>7, <2>8
        <2> QED
            BY <2>1, <2>2, <2>3, <2>4, <2>5, <2>6, <2>7, <2>8 DEF KernelStep, GcStep, SystemStep
    <1>12. CASE UserStep
        <2>1. PICK u \in User :
                  \/ \E d \in Delay : Sleep(u, d)
                  \/ \E d \in Delay \cup {Forever} : Poll(u, d)
                  \/ \E x \in Task : Wait(u, x) \/ LaunchBegin(u, x) \/ Clone(u, x) \/ Cancel(u, x)
                  \/ \E v \in ExitValue : Exit(u, v)
                  \/ Consume(u)
            BY <1>12 DEF UserStep
        <2>2. u \in Task
            OBVIOUS
        <2>3. CASE (\E d \in Delay : Sleep(u, d)) \/ \E d \in Delay \cup {Forever} : Poll(u, d)
            BY <1>5, <2>2, <2>3 DEF Sleep, Poll
        <2>4. CASE \E x \in Task : Wait(u, x)
            BY <1>7, <2>2, <2>4
        <2>5. CASE \E x \in Task : LaunchBegin(u, x)
            BY <1>2, <2>5 DEF LaunchBegin, histVars
        <2>6. CASE \E x \in Task : Clone(u, x)
            <3>1. PICK x \in Task : Clone(u, x)
                BY <2>6
            <3>2. state' = [state EXCEPT ![x] = "running"] /\ UNCHANGED <<exit, first, late, guessed>>
                BY <3>1 DEF Clone, histVars
            <3> QED
                BY <1>4, <3>2 DEF TaskState
        <2>7. CASE \E v \in ExitValue : Exit(u, v)
            BY <1>9, <2>7 DEF Exit, Calling
        <2>8. CASE \E x \in Task : Cancel(u, x)
            <3>1. PICK x \in Task : Cancel(u, x)
                BY <2>8
            <3>2. CASE x = u
                BY <1>9, <3>1, <3>2, SchedulerAssumption DEF Cancel, Calling
            <3>3. CASE x # u
                <4>1. /\ SetExit(x, FAILURE) /\ late' = late /\ (guessed => guessed')
                      /\ state' = [state EXCEPT ![x] = "canceled"]
                    BY <3>1, <3>3 DEF Cancel
                <4>2. \A y \in Task : state'[y] = "canceled" => y = x \/ state[y] = "canceled"
                    BY <1>1, <4>1
                <4> QED
                    BY <1>8, <4>1, <4>2, SchedulerAssumption
            <3> QED
                BY <3>2, <3>3
        <2>9. CASE Consume(u)
            BY <1>2, <2>9 DEF Consume, histVars
        <2> QED
            BY <2>1, <2>3, <2>4, <2>5, <2>6, <2>7, <2>8, <2>9
    <1>13. CASE BecomeReady \/ Stopped
        BY <1>2, <1>13 DEF BecomeReady, Stopped, vars, histVars
    <1> QED
        BY <1>10, <1>11, <1>12, <1>13 DEF Next

LEMMA StoredExitInvariance == Spec => []StoredExit
    <1>1. Init => StoredExit
        BY DEF Init, StoredExit, NoAnswer
    <1>2. IInv /\ FirstExit /\ StoredExit /\ [Next]_vars => StoredExit'
        <2>1. StoredExit /\ UNCHANGED vars => StoredExit'
            BY DEF StoredExit, vars, histVars
        <2> QED
            BY <2>1, StoredExitNext
    <1> QED
        BY <1>1, <1>2, Invariance, FirstExitInvariance, PTL DEF Spec

(* A waiter that was blocked when its target ended gets the exit value its *)
(* target ended with, not one that a later cancel has stored over it; one  *)
(* that comes later gets that value or the one that a cancel has stored.   *)
THEOREM WaiterCorrect == Spec => []WaiterGetsFirstExit
    <1>1. FirstExit /\ StoredExit => WaiterGetsFirstExit
        BY DEF FirstExit, StoredExit, WaiterGetsFirstExit
    <1> QED
        BY <1>1, FirstExitInvariance, StoredExitInvariance, PTL
=============================================================================
