# skiftOS: a verification project for the kernel and its services

This directory models the parts of skiftOS in which the order of events
matters: in the kernel the scheduler and the life of a task, the lock, the
pipe, the socket, the tree of nodes with the handle tables, and the memory
manager; above it the settings service and the compositor, with their clients.
Each is a TLA+ module translated from the source and model-checked with TLC on
small instances; their safety is also proved with TLAPS, for every value of their
constants.

## 1. The system

skiftOS is a hobby operating system: a kernel for one CPU (x86_32, x86_64), a C
library and framework in C++, and desktop programs. Programs talk to each other
through the kernel only, by pipes, sockets, terminals and shared memory. The
build modelled is the one for x86_32.

Where the concurrency is: a task is preempted by the timer wherever the
interrupt flag is set, kernel code included; `InterruptsRetainer` disables the
interrupts for a scope, by a counter that all tasks share; a task may be
canceled at any point by another one, and then executes nothing more: its
destructors do not run. There is no other CPU.

Less is preempted than it seems. `malloc`, `free` and the logger retain and
release the interrupts (`kernel/plugs.cpp:67-75`, `91-99`), and
`interrupts_release` enables them only when the depth comes down to zero
(`Interupts.cpp:42-50`). System keeps what it retains in `task_wait` for as long
as it waits for init (`Task.cpp:283-297`). So from then on a system call runs
with the interrupts disabled from its first allocation until it blocks or
returns. What has allocated nothing (the release and the close of a handle, a
seek, a stat, a read of a file) is preempted as before. Such a call may be
preempted while it owns the lock of a node; a call with the interrupts disabled
that then spins on that lock spins for ever, and nothing else runs again.

### Inventory

| Component (source) | State | Operations | Interacts through | What is hard | What makes it correct | Status |
|---|---|---|---|---|---|---|
| Scheduler (`kernel/scheduling`) | `running`, the running list, the blocked list, per task state and blocker | `schedule`, `scheduler_yield`, `scheduler_did_change_task_state` | timer interrupt, interrupt 127, `Task::state` | preemption inside `task_block`; timeout against condition | lists match states, only runnable tasks execute, round robin, everyone runs | partly |
| Interrupt retains (`kernel/interrupts`, `archs/x86_32`) | `_depth`, the interrupt flag | retain, release, handler entry and exit | every kernel scope | the counter is shared, a blocked or canceled task keeps its share | counter = retainers alive; the collector is never preempted in its sweep | modelled |
| Task life cycle (`kernel/tasking`) | `_tasks`, `_task_ids`, exit values | launch, clone, exit, cancel, wait, sleep, collect | scheduler, system calls | cancel during launch, wait against free, exit value stored twice | no use after free, first exit value wins, canceled tasks are freed | partly |
| Lists (`libsystem/utils/List.cpp`) | links | push, pushback, remove, peek, rotate | used everywhere | item linked twice | every item once, in one order | partly |
| Spin lock (`libsystem/thread/Lock.h`) | `_locked`, `_holder` | acquire, release, acquisition by the scheduler for a blocked task | nodes, handle tables, handles | two stores per operation, cancellation of the owner | one owner; implements a mutex | modelled |
| Ring buffer (`libutils/RingBuffer.h`) | buffer, head, tail, used | put, get, read, write | pipe, connection, terminal, drivers | wrap-around, full against empty | a bounded queue | partly |
| Handles, nodes, pipes (`kernel/node`) | lock and counts of a node, buffer | read, write, close, copy, accept | blockers, handle tables | blocking writes in pieces, counts changed without the lock | bytes in order, counts = handles, calls return | partly |
| Sockets, connections, terminals (`kernel/node`) | `_pending`, `_accepted`, two buffers | connect, accept, read, write | filesystem lookup, handles | two locks in an accept, the client wakes in the middle of it | accepted once, two queues, calls return | partly: not the terminal |
| Handle table (`tasking/Task-Handles.cpp`, `node/Handle.cpp`, `File.cpp`) | 128 slots, their lock, a lock per handle, the offsets | open, close, read, write, seek, copy, reopen, create, close-all, poll | every handle call, the collector | a lock left taken, failures half-way, cancellation inside the table | appends are kept, calls return | partly: not stat, tell, call, the poll of each handle |
| Filesystem (`kernel/filesystem`, `node/Directory.cpp`) | tree of nodes | lookup, open, link, unlink, rename, mkdir, mkpipe | node locks, handles | rename takes two locks; find and link are separate | names change one at a time, a directory has one, no other deadlock than the known one | partly: not the listing, nor the freeing of nodes |
| Memory (`kernel/memory`, `Task-Memory.cpp`, `VirtualMemory.cpp`) | page bitmap, objects and reference counts, page tables, mappings | alloc, map, include, free, clone, destroy | tasks, collector, shared buffers | references dropped by two tasks, cancellation inside a call | a page has one holder; what is mapped is what is reached | partly: the processes, not the address space of the kernel |
| Dispatcher (`kernel/interrupts/Dispatcher.cpp`) | pending interrupts | dispatch, snapshot, handle | interrupts, drivers | an interrupt during a snapshot | no interrupt lost | not modelled |
| Event loop (`libsystem/eventloop`) | timers, notifiers, invokers | register, unregister, pump | `hj_handle_poll`, callbacks | order of what is ready; callbacks change the lists being walked | what is ready is handled | partly: its rounds, in `Settings` and `Compositor` |
| Settings service (`apps/settings-service`, `libsettings`) | repository, clients, subscriptions; watchers and cached values of each process | read, write, watch, unwatch, notify | a socket | answers mixed with notifications, a client lost in the middle of a loop | a Setting stays up to date, requests return | partly: one path |
| Compositor (`apps/compositor`, `libwidget/Application.cpp`) | windows, focus, clients | show, flip, hide, goodbye, input, sweep | a socket | a client disconnected and not yet destroyed | no window outlives its client, applications are answered | partly: not the drawing, moves and cursors |
| Start-up, panic (`kernel/main.cpp`, `system`) | the tick | boot, panic | all | runs before any concurrency | | the tick and the panic only |
| Heap allocator, containers, text formats | | | | sequential | | not modelled |
| Drivers, applications, graphics, media | | | | pure input and output, or sequential | | not modelled |

Vendored code (`thirdparty`, `toolchain`, `contribs`) is left aside.

## 2. The modules

| Module | Stands for |
|---|---|
| `TaskList` | The lists of the scheduler: a set of items and the order relation between them, so that nothing is recursive. |
| `Scheduler` | Scheduler, retain counter, interrupt entry, task life cycle, collector. |
| `SchedulerProps`, `SchedulerInv` | What they promise; the inductive invariant, part by part. |
| `MCScheduler` | Two instances for TLC. |
| `SchedulerProofs` | The proofs: first the lemmas about the lists, then the scheduler. |
| `Mutex` | Abstract: what a lock promises. |
| `Lock` | `Lock.h`, store by store, and its use by the scheduler. |
| `LockProofs` | The lock keeps its invariant and implements `Mutex`. |
| `RingBuffer` | The ring buffer, as a record with the fields of the class. |
| `Channel` | Abstract: a bounded queue, first in first out. |
| `Pipe`, `PipeProps` | The pipe with its handles, system calls and collector. |
| `Session` | Abstract: a connection is accepted once, and is two bounded queues from then on. |
| `PipeProofs` | The invariants of the pipe, and that it implements `Channel`. |
| `Socket`, `SocketProps`, `MCSocket` | The socket and its connections. |
| `SocketProofs` | Their invariants, and that they implement `Session`. |
| `Namespace` | Abstract: a tree whose names are made, removed and moved one at a time. |
| `Filesystem` | The tree of nodes: lookups and changes, under the locks of the directories. |
| `HandleTable` | The handles, files and offsets of the processes, over `Filesystem`. |
| `FilesystemProps`, `MCFilesystem` | What both promise; six programs for two processes. |
| `FilesystemProofs` | The tree is a `Namespace`, a directory has one name, appends are kept. |
| `Memory` | Pages, objects, page tables and mappings, as operators. |
| `TaskMemory`, `MemoryProps`, `MCMemory` | The memory calls of the processes, copies and destruction. |
| `MemoryProofs` | The invariants of the memory. |
| `Settings`, `SettingsProps`, `MCSettings` | The settings service and the library of its clients. |
| `SettingsProofs` | Their invariants, and that a Setting stays up to date. |
| `Compositor`, `MCCompositor` | The compositor and its applications, with what it promises. |
| `CompositorProofs` | The windows have clients, and whoever waits is being answered. |

How they compose: `Scheduler` uses `TaskList`; `Pipe` uses `RingBuffer`;
`HandleTable` extends `Filesystem`, and its next-state relation has the steps of
both; `TaskMemory` uses the operators of `Memory`. `Pipe`, `Socket` and
`Filesystem` take and give back the lock of a node in one step each: `Lock`,
which does it in two stores, is shown to implement `Mutex`, which does it in
one. `Socket` has queues for the two buffers of a connection: `Pipe`, which has
the ring, is shown to implement `Channel`. `Settings` and `Compositor` have a
queue in each direction for a connection that was accepted: `Socket` is shown to
implement `Session`, which is that.

### Scheduler

The names of the variables are those of the source where it has them: `tasks`
is `_tasks`, `nextId` is `_task_ids`, `depth` is `_depth`, `ifl` the interrupt
flag of the CPU, `saved` the flag in the frame that each task left on its
stack, `running` the task that executes. `pc` is the place in the kernel where a
task is. `held` names the retainers that are alive and may stay so across a
change of task: a history that the code does not keep, from which
`RetainAccounting` says what `_depth` must be. `first` (the first exit value),
`late` (what a wait that did not block has returned) and `guessed` are histories
too.

- `Tick` is the timer interrupt: `system_tick` and `schedule`. `Yield` is
  interrupt 127. Both call the operator `Schedule`, the whole of `schedule()`:
  every blocked task is tested and woken, in the order of the blocked list,
  then the head of the running list is executed and moved to its tail.
- `Park` is `task_block` up to its `interrupts_release`. The yield is a step of
  its own, because the timer may come in between. `Resume` is its end.
- `Wait` on a task that has ended does not block: `task_block` calls
  `on_unblock` at once, which copies the exit value as it is then.
- `Sleep`, `Poll`, `Wait`, `LaunchBegin`, `LoadBlocks`, `LaunchGo`,
  `LaunchFail`, `Clone`, `Exit`, `Cancel`, `Consume` are the system calls, cut
  where the code lets the timer in. `GcSleep` ... `GcRelease` are the collector.
- `BecomeReady` is the environment: what some process polls for is there.
- `Stopped` is the machine after a panic (init returned, or failed to start) or
  after memory was used that is free ("corrupt").

Abstractions: a deadline is the number of ticks left, so the clock needs no
bound (its wrap after 49 days is not covered). The conditions of the blockers
on nodes are the flag `ready`; modules `Pipe` and `Socket` have the real ones. A
process that names a task which its launcher has not announced yet sets
`guessed`: it can, identifiers are consecutive, and the code does not defend
against it (the child may then be freed under its launcher). The properties
about freed tasks are stated for the behaviours where nobody does.

### Lock

`acquire_for` is the compare-and-swap, then the store of `_holder`;
`release_for` is the assertion, the store of `_locked`, the store of `_holder`.
`Grant` is what the scheduler does for a task blocked in `task_block`, both
stores in one step since it runs with the interrupts disabled. `Cancel` may hit
a task anywhere; the lock it owns stays taken. `masked` is the task that runs
with the interrupts disabled: a call may have allocated before it asks for the
lock (`MayMask`) or while it has it (`Allocate`). No other task has a step
meanwhile, and `Hang` is such a task that finds the lock taken.

### Pipe

`ring` is `_buffer`, `owner` the holder of the node's lock, `count` is
`_readers` and `_writers`, `table` tells which ends each process has. A read or
a write is `Read`/`Write` (the call), `Enter` and `Wake` (`task_block` and the
scheduler), `UseRead`/`UseWrite` (the node), `Release`, which goes round again
while a write is not complete. `Launch`, `Pass`, `Go` are `task_launch` and
`task_pass_handles`; `Close`, `Acquire`, `Release`, `Deref` are the destructor;
`Clone` and `Collect` run with the interrupts disabled, and set `hung` where the
code spins on a lock that nobody can give back. A clone is not in `_tasks`
(`Task.cpp:97-157` does not link it), so that `Collect` never closes the handles
of one: `clones` remembers who they are. A child that is still being launched is
not canceled (module `Scheduler` covers that).

`kept` says that System waits for init, from `SystemWaits` on; `masked` is the
process that runs with the interrupts disabled. `Allocates` names the steps in
which the code calls `malloc` or `free`, and `Interrupts` what a step does to
`masked`; until p blocks or returns, nobody else has a step. `Hang` is the spin on
a lock that is taken, with the interrupts disabled. `Socket` and `HandleTable` have
the same five definitions, with their own steps.

### Socket

`pending`, `accepted`, `count`, `data` are the fields of the socket and of its
connections. A connect is `Connect`, `Acquire` and `UseConnect` (under the
socket's lock), `Release`, `Ref`, `Acquire`, `Release` (the constructor of the
handle, under the connection's lock), `Connected` (`BlockerConnect`), `Add`
(the table). An accept is `Accept`, `Unblock` (gets the socket's lock),
`UseAccept`, `Ref`, `Acquire`, `Release` twice, `Add`. `Add` deletes the handle
if the table is full. Handles are not copied here: launch and clone are in
module `Pipe`. The lookup of the socket's path is left to the filesystem. An
accept that was blocked has freed its blocker, and runs with the interrupts
disabled until it returns: a client cannot run between `accepted()`
(`Socket.cpp:27`) and the count of the server's handle, once System waits.

### Filesystem and handle table

`type`, `entry` and `data` are the nodes: their type, the children of a
directory, the content of a file. `owner` is the holder of a node's lock,
`table` the handles, `left` the handles whose lock was taken and not given back.
`op` is the call that a process makes: the request, the path that is looked up
(`goal`), how far (`at`), and the node reached (`cur`).

- `Walk` and `Look` are one turn of the loop of `filesystem_find`: the lock of a
  directory, then the child and the release. `FindParent`, `FindLinked`,
  `FindOpened`, `FindCreated`, `FindRenamed` are what each call does with the
  result, early returns included.
- `Lock`, `UseLink`/`UseUnlink`, `Unlock` change one directory. A rename has
  `Lock` (the new parent), `Lock2` (the old one, if it is another), `UseMove`
  (link), `UseMoved` (unlink), `Unlock2`, `Unlock`.
- `Open` and `Opened` are the constructor of a handle, under the lock of its
  node; `Add`, `Evict`, `Delete`, `Deleted` the table and the destructor; `Copy`
  is `hj_handle_reopen` and `hj_handle_copy`; `Ask` and `UseFile` a read, write
  or seek of a file.
- `PlaceOutside` is a copy to a destination outside of the table, which the
  code does not refuse (`Task-Handles.cpp:30` tests `index < 0 && index >=
  PROCESS_HANDLE_COUNT`): memory is overwritten, and `machine` is "corrupt".
- `Collect` is the collector, which runs with the interrupts disabled and hangs
  the machine where it spins; `CreatePipe`, which runs on nodes that nobody else
  knows, is one step.

A process makes one call at a time, so that its table needs no lock but for
cancellation: `Inside` says when a canceled process may have been in it. A file
is read and written in units, each with the name of who wrote it.

### Memory

An address is a page and an offset in it, `Byte` gives its number; sizes that a
process asks for are in bytes, those of objects and of the bitmap in pages.
`hj_memory_map` takes any address (`Syscalls.cpp:172-180`), the test for
collisions compares bytes (`Collides`, `Task-Memory.cpp:92`) and page table
entries are of pages (`MapAt`, `VirtualMemory.cpp:98`, `117`). A mapping in the
middle of a page therefore covers one entry less than its bytes need, and may
replace an entry of another mapping; `Faults` says when the kernel, which clears
or copies a mapping by its bytes, touches a page that is not there and panics.
`straight` is a history: whether everything was mapped at the start of a page.

`memory` is the bitmap with `best_bet` and
the memory objects; `space` the page tables and mappings of each process. An
allocation is `Alloc` (or `Map`), `CreateObject`, `MapObject` (or
`MapObjectAt`), `Drop`, cut where the code releases the interrupts; `Include` is
cut before its size check, `IncludeCheck` and `IncludeStale`. `Clone` and
`Destroy` run with the interrupts disabled and are one step; a clone is never
destroyed, since it is not in `_tasks`. The other steps may be interleaved and
canceled anywhere, as they may before System waits for init: that is more than
the running kernel does, and what holds for it holds for the kernel. `memory.state` is
"panic" when no page is left, as `physical_alloc` panics, and "corrupt" after
`task_memory_include` has read an object that was freed. The first processes
have a directory each, and page 0 is the kernel's.

### Settings

One path, its value in the service (`repository`), and for each process the
watchers and cached values of its Settings. The service is one event loop:
`ServerAccept`, `ServerReceive` and `ServerLoses` are what a round begins with,
the first ready handle in the order of the notifiers; `ServerNotify` goes over
the clients after a write, one at a time, since a process may end in the middle;
`ServerReply` ends the round with the invoker, which forgets closed clients. A
client makes requests (`Make`, `Destroy`, `Write`, `WriteOwn`) and waits in
`Receive`, which handles the notifications that come before the answer. `Die` is
the end of a process anywhere. Messages are sent and received whole.

### Compositor

`desk` has the windows from front to back, the focus, the clients with
`_disconnected`, and what was sent to each. A round of the event loop is one
step, since only the compositor changes its state: `TimerRound`,
`KeyboardRound`, `MouseRound` and `SocketRound`, which end with the sweep of the
disconnected clients, `RequestRound`, which handles a message, `LossRound`, which
finds a connection that is gone and sweeps, and `AssertRound`, the assertion of
`handle_request`.

The sweep is `client_destroy_disconnected`, and is cut in steps: `Swept` finds
the first client to destroy, `CloseWindow` closes one of its windows,
`DestroyClient` takes it out of `_clients` and finds the next one with
`NextGone`. `sweep` is where the loop is, and no round begins before it is 0.
Closing a window sends events, which may disconnect a client that the loop has
passed, or one that it has yet to reach. An application may end between two of
these steps. `CloseWindow` may read an item of the list that was freed: when the
window at the front is closed and there are others, the next one gets the focus,
which gives it a new item, while `list_iterate` has saved the old one. What is
read then is as before, or "corrupt".

An application shows, flips and hides windows, asks for the position of the
mouse, changes the resolution, and says goodbye, of its own (`Exit`) or after its
last window (`Hide`): it hides what it still shows, one window at a time, and
then sends the goodbye (`Leave`). `Die` is its end anywhere. Geometry is left
out: any window may be under the mouse.

## 3. The runs

| Run | Instance | Shows |
|---|---|---|
| `scheduler` | tasks Idle, System, Gc, and 3 processes that launch, clone, wait, poll, cancel, exit | `TypeOK`, `ListsMatchStates`, `RunningIsRunnable`, `RetainAccounting`, `SweepNotPreempted`, `NoUseAfterFree`, `WaiterGetsFirstExit`, `NoOvertaking`, `CanceledIsFinal` |
| `live` | 2 processes that launch, wait, sleep, exit; fair | `WaiterReturns`, `CanceledIsFreed`, `RunnableRuns` |
| `lock` | 3 tasks; fair | `OneOwner`, `HolderIsOwnerOrErased`, refinement `MutexSpec`, `LockIsPassedOn` |
| `pipe` | 2 processes that may be launched or cloned, buffer of 2 bytes, reads and writes of 1 and 2, 2 bytes each, one may be canceled; fair | `TypeOK`, `OwnerIsInside`, `CountsMatchHandles`, refinement `ChannelSpec`, `CallReturns` |
| `socket` | a client, a server, another client that only connects; buffers of 1 message, a table of 2 handles, the client may be canceled; fair | `PendingIsUnaccepted`, `CountsMatchHandles`, refinement `SessionSpec`, `CallReturns` |
| `filesystem` | 2 processes with six programs (renames, appends, links, copies, offsets, listings), 6 nodes, 3 names, a table of 2 handles, one may be canceled | `DirectoryHasOneName`, refinement `NamespaceSpec`, `AppendKeeps` |
| `filesystem_live` | the same with the programs renames, copies and listings, which have all the ways to wait; fair | `CallReturns` |
| `memory` | 2 processes and one that is cloned, 8 pages of 2 bytes, 2 objects of 1 or 5 bytes, 4 pages of addresses, one may be canceled | `TypeOK`, `PagesHaveOneHolder`, `ReferencesCounted`, `ReachableIsMapped` |
| `settings` | 2 processes with up to 2 Settings of one path, 2 values, 3 and 2 calls, one may end anywhere; fair | `TypeOK`, `SubscribedIffWatching`, `StaysCurrent`, `RequestReturns`, `EndedIsForgotten` |
| `compositor` | 2 applications with up to 2 windows, 3 and 2 calls, one may end anywhere; fair | `WindowsHaveClients`, `AnswerComes` |
| `lock_ensure` | 2 tasks | a finding, section 5 |
| `compositor_goodbye` | one application, which may show a window, says goodbye, and may end at any time | a finding, section 5 |

Every property of a passing run is also checked against a mutant: a second
definition beside the real one, marked `mutant`, which changes it as a
plausible bug would. The property fails with it.

What the properties of the newer modules say:

- `NamespaceSpec`: whatever the interleaving of lookups and changes, the tree
  changes one name at a time and no name is given twice. A rename, which links
  and then unlinks, is one move for whoever owns the parents. `DirectoryHasOneName`
  is what the lock of the second parent is for.
- `AppendKeeps`: appends of two processes never replace each other, since the
  end of the file is read under the lock under which it is written.
- `CallReturns` of the filesystem is stated up to `Doomed` (the processes that
  are canceled, that spin on a handle whose lock was left taken, that are in two
  renames in opposite directions, and those that wait for one of these) and up to
  a machine that has stopped: hung by the collector, or by a call that spins with
  the interrupts disabled, or corrupt. It shows that there is no other way to
  wait for ever.
- `LockIsPassedOn` and the other `CallReturns` are stated up to the same hang.
- `WaiterGetsFirstExit`: whoever was blocked when its target ended returns the
  value it ended with, though a cancel may have stored `PROCESS_FAILURE` over it
  before the waiter runs. Whoever comes after the end gets the value as it is
  then: the first, or `FAILURE`.
- `PagesHaveOneHolder`: the pages in use are exactly those of the objects, the
  page tables, the directories and the kernel, and no two of them share one.
  `ReferencesCounted`: a reference is a mapping or a call; a call that was
  canceled keeps its own for ever. `ReachableIsMapped`: no entry of a page table
  outlives its mapping, it leads to an object that the process has mapped at that
  place, also when mappings overlap; and as long as a process maps at the start
  of pages, of whatever size, each of its mappings leads to its own object. All
  are stated up to the panic or the corruption, which the run reaches.
- `StaysCurrent`: a Setting that was registered when a write was taken has the
  last value the service took, whenever nothing is on its way.
- `WindowsHaveClients`: windows and the focus are raw pointers; none dangles,
  whatever ends in the middle of a sweep. The windows managed for an application
  that lives are those that it shows, as soon as all that it has sent is handled.
  `AnswerComes`: an application that
  waits for the compositor goes on, while the compositor runs.

### Bounds, and why they are enough

- `MaxTask`: identifiers, kernel tasks included. Three processes are a
  launcher, a child and an observer; each may be preempted, canceled or waited
  for by another. The proofs hold for any number.
- `Delay` and `GcPeriod`, in ticks. Only the order in which deadlines expire
  matters: a delay of 2 and a period of 1 expire together and apart.
- `ExitValue`: failure (what a cancel stores) and another one.
- `Calls`, `MaxCalls`: the calls of each process, to keep an instance small;
  every call is made by a process of some run.
- `Thread` = 3: one owns the lock, one is giving it back, one takes it.
- `Size` = 2 with accesses of 1 and 2 bytes: the indices wrap in the middle of
  an access, a write is cut in two, the buffer is full, half full and empty.
  `MaxBytes` = 2 bounds what each process writes in its life; both together fill
  the buffer twice.
- `Conn` = 2 connections, so that two are pending at once and that a table of
  `MaxHandles` = 2, the socket's handle included, is full at the second.
  `MaxMsg` = 1 message in each direction: more of them in one direction is what
  the pipe covers.
- `Path`: two components, so that a parent is not the root. `Node` = 6: the root,
  two directories, one directory in them, and two nodes to make. The renames go
  both ways between the two directories, and into a descendant. A table of 2
  handles is full after two opens. `MaxSize` = 1: a process writes to a file
  shorter than that, so that two appends follow each other and a write after a
  seek leaves a gap.
- `Total` = 8 pages with 2 objects (`MaxId`) of 1 or 5 bytes, which are 1 or 3
  pages of `PageSize` = 2: the memory is full, and pages are given again. Each
  page has an address at its start and one in the middle, so that mappings
  overlap and bytes lie past the last page of a mapping. `Span` = 2 pages to a
  page table, so that a mapping needs two of them. An object is made by an allocation and another by a
  map, a share or a copy.
- `Setting` = 2 for each process: the first watches the path, the second does
  not, the last unwatches it. Two values tell an old one from a new one.
- `Id` = 2 windows: one gets the focus when the other goes. `Unread` = 1: input
  comes while no application has an event to read, so that the queues are
  bounded.
- `Mortal`: the processes that may be canceled, at any point.

Deadlock is checked for the scheduler, which always has a step. In the other
modules all processes may be dead or done, or the machine hung: there the
liveness properties say which calls must return.

### Fairness

- `Scheduler`: `SF(Tick)`, because the interrupt controller latches the timer
  until the interrupt flag is set, which is not continuous; `SF(KernelStep(t))`,
  because a task runs in slices and a slice is long compared with one step.
  Nothing is assumed of user mode: a process may never make another call.
- `Lock`: weak, for the scheduler and for the tasks not canceled that may run:
  while a task runs with the interrupts disabled, no step of another is enabled,
  and nothing is assumed of it.
- `Pipe`, `Socket`, `HandleTable`: `SF(Run(p))`, for the pipe together with
  `Wake(p)`, because a lock or a condition is free from time to time rather
  than for ever: a process that spins with the interrupts enabled, or is looked
  at on every schedule, finds it free at some time. The time slices are not
  synchronised with the critical sections; a scheduler that always looked at the
  wrong moment is excluded by this assumption. A process that spins with the
  interrupts disabled is not given that chance: no other process has a step, and
  what it can do is `Hang`. `SF(Collect(p))`: the collector comes round again and
  again, whenever nobody runs with the interrupts disabled. No process need ever
  read, accept or close, nor System ever wait.
- `Settings`: `WF(ServerStep)` and `WF(Receive(c))`: the service runs, and a
  client that waits takes what has come. No client need ever call.
- `Compositor`: `WF(Serve)`: the compositor runs, in the middle of a sweep as
  between two rounds; the timer fires, and the keyboard and the mouse,
  which come before the connections in each round, are not always ready; they
  are driven by a person. `WF(Receive(c) \/ Left(c))`: an application that waits
  takes what has come.

The liveness properties of the pipe and of the socket end with `Stuck`, that of
the filesystem with `Doomed`: a process that was canceled while it owned the
lock of a node has stopped everyone who needs the node, and the collector may
then hang the machine, as a call that spins with the interrupts disabled may do
without any cancel. This is what the code does; both are listed among the
hazards.

## 4. What is proved

Each proof is for every value of the constants, from the assumptions that the
modules name and from nothing else, and has the same layout: an inductive
invariant `IInv` of named parts, one lemma for each action (or for each kind of
step that actions share), `THEOREM Invariance == Spec => []IInv`, and from it
one theorem for each property. `IInv` was checked by TLC as an invariant of the
runs' instances, before it was proved.

| Module | Theorems (property) | Parameters proved for |
|---|---|---|
| `SchedulerProofs` | `TypeCorrect` (`TypeOK`), `ListsCorrect` (`ListsMatchStates`), `RunningCorrect` (`RunningIsRunnable`), `RetainCorrect` (`RetainAccounting`), `SweepCorrect` (`SweepNotPreempted`), `FreeCorrect` (`NoUseAfterFree`), `CanceledCorrect` (`CanceledIsFinal`), `NoOvertakingCorrect` (`NoOvertaking`), `WaiterCorrect` (`WaiterGetsFirstExit`) | tasks, exit values, delays, calls |
| `LockProofs` | `LockCorrect`, `HolderCorrect` (`HolderIsOwnerOrErased`), `LockImplementsMutex` (`MutexSpec`) | threads |
| `PipeProofs` | `TypeCorrect` (`TypeOK`), `OwnerCorrect` (`OwnerIsInside`), `CountsCorrect` (`CountsMatchHandles`), `PipeImplementsChannel` (`ChannelSpec`) | processes, size of the ring, of accesses, bytes |
| `SocketProofs` | `PendingCorrect` (`PendingIsUnaccepted`), `CountsCorrect` (`CountsMatchHandles`), `SocketImplementsSession` (`SessionSpec`) | processes, connections, messages, size of the buffers and tables |
| `FilesystemProofs` | `TreeImplementsNamespace` (`NamespaceSpec`), `DirectoryCorrect` (`DirectoryHasOneName`), `AppendCorrect` (`AppendKeeps`) | processes, nodes, names, the tree at the start, programs, sizes |
| `MemoryProofs` | `TypeCorrect` (`TypeOK`), `HolderCorrect` (`PagesHaveOneHolder`), `ReferencesCorrect` (`ReferencesCounted`), `ReachableCorrect` (`ReachableIsMapped`) | processes, pages, addresses, page tables, objects, sizes, calls |
| `SettingsProofs` | `TypeCorrect` (`TypeOK`), `SubscribedCorrect` (`SubscribedIffWatching`), `StaysCurrentCorrect` (`StaysCurrent`) | processes, Settings, values, calls |
| `CompositorProofs` | `WindowsCorrect` (`WindowsHaveClients`), `AnswersCorrect`, `LivingAreConnected` | applications, windows, calls |

### Scheduler

`IInv` has fifteen parts: the type invariant, the safety properties of run
`scheduler`, and what makes them inductive.
- `ListsMatchStates` needs to know that a list stays a total order under each
  operation: the first lemmas of `SchedulerProofs`.
- `RunningIsRunnable` needs `BlockedOrWoken` (a task in `task_block` is
  blocked, or woken with a result, or canceled), and `KernelTasks` (Idle and
  the collector are never canceled).
- `RetainAccounting` counts a set, so each step must add or remove a retainer
  that was not, or was, there: `HeldFrames` says where each one is, and
  `SweeperIsGc` that only the collector has its own.
- `SweepNotPreempted` follows from the retainer of `task_iterate` being counted.
- `NoUseAfterFree` needs `CanceledHasNoWaiter` (the schedule that follows a
  cancel wakes every waiter before the collector can run), `LaunchedOnce`,
  `LaunchedIsUnknown`, `UnusedIds` and `FreedIsGone`.

Lemma `ScheduleEffect` says once what `schedule()` does to the lists, the states
and the running task. The two action properties follow from `IInv` step by step.
`WaiterGetsFirstExit` is not inductive, and `IInv` does not help: `exit` is
stored again by every cancel of a task that has already ended. `FirstExit`
(theorem `FirstExitInvariance`) is the strengthening. A task that exits wakes
its waiters in the same schedule, so whoever is still blocked on a canceled task
was there when another task canceled it, which stores the value that every later
cancel stores; a woken waiter has its copy. `StoredExit` is about
`exit` itself: of a canceled task it is the first value or `FAILURE`, which is what
a wait that comes after the end reads.

### Lock

`Inv` is inductive as it stands; `_holder` alone would not be, since a late
release may erase it. Whether the interrupts are enabled only takes steps away.

### Pipe

Next to the three invariants, `IInv` has:
- `Linked(ring)`: `head` and `tail` are `used` apart, modulo the size. `TypeOK`
  alone does not say that a put does not write over what a get has not read.
  Lemmas about the operators of `RingBuffer` say what a put and a get of one
  byte, then of several, do to `Linked` and to the contents.
- `CallShape`: what a call is about at each location; an access has not done
  more than its size, which bounds what a process has put.
- `Launching`: a launch has a child of its own, which does not run, and passes
  to it the ends that it does not have yet. Without it two launchers could
  count the same handle, and `CountsMatchHandles` would not be kept.
- `Closing`: a handle that is being closed is still in the table, so that the
  count goes down by a handle that was counted.
- `BornHave`: who has handles was created (a clone too), and those are finitely many, which
  the cardinalities of `CountsMatchHandles` need when `Proc` is infinite.

`PipeImplementsChannel`: the contents of the ring, read from `tail`, are the
queue of `Channel`. The steps that use the ring are a put or a get; all others
are shown to change neither the contents nor what a process has put.

### Socket

Next to the two invariants, `IInv` has:
- `OwnerHolds`: a lock is owned by exactly who took it and did not give it back,
  whether alive or not. An accept owns two at once.
- `AcceptHasOne`: while an accept that was let in has the lock, the pending list
  is not empty, since the condition was seen under the same lock.
- `HandleOnce`, `Known`, `Closing`: a handle is in one table or being made by
  one process, for a connection that was made, and of the server's side only for
  one that was accepted. Otherwise the same handle could be counted for two.
- `FinitelyMany` for the cardinalities, `CallShape` as for the pipe.

`SocketImplementsSession`: who uses the server's end of a connection uses one
that was accepted (lemma `ServerAccepted`), which is what `Session` asks of it.

### Filesystem

`IInv` has, next to the types:
- `Shape`: at each location of a call, which node and which handle it has. Part
  `UsesHeld` says that a call on a slot still finds a handle there at each step:
  only its own process changes its table while it lives, and the table of a
  canceled one stays as it is where it owns the lock of the handle's node.
- `Locked`: a process inside a directory, or inside two for a rename, owns their
  locks. Cancellation leaves them owned.
- `Named`: what has a name was made. The order in `open` and `mkdir` (make,
  then link) keeps it.
- `NewDirs`: a directory that `mkdir` has made has no name and one maker until
  it is linked. With a directory of two makers, or a name given to it by
  another, `DirectoryHasOneName` would fail at the link.
- `Reserve`: as many nodes are left as there are opens that may still create
  one; that is what keeps the bound on the nodes from cutting a call in two.

`TreeImplementsNamespace` maps the tree to names *as far as the owner of both
parents is concerned*: between the link and the unlink of a rename the moved
node has two names, and the map leaves out the old one. The argument is that the
masked name lies in a directory that the rename owns (`Locked`), so that no
other process can add, remove or mask a name there meanwhile, and that a step of
another process changes a name in a directory it owns. A rename is then one
step of `Namespace`, at its link; its unlink is a stutter.

`AppendCorrect` is an action property: the write under the lock computes its
offset from the length of the file at that moment (lemma `WrittenFacts` says
what a write at an offset does to a file), and every other step leaves the
contents alone or belongs to a process that has the file open to write or to
truncate.

What is assumed of the constants, in `FilesystemAssumption` and
`HandleTableAssumption`: the tree at the start is one that the kernel can make
(entries are nodes that exist, a directory has one name), there are finitely
many nodes, and the markers for no node, no handle, nobody and a gap are not
one of the things they stand apart from. `TLC` evaluates them in the run
`filesystem`.

### Settings

`IInv` has, next to the types:
- `OneRequest`: the request of a client is on its way to the service, or
  handled, or answered: exactly one of these, only while the client awaits the
  answer, and the answer is of the type that it awaits. All else on its way to
  the client is notifications.
- `Subscriptions` says at each place of a client what `SubscribedIffWatching`
  says of an idle one: a request to watch or to unwatch is on its way while there
  is no watcher, and the subscription changes when the service receives it, not
  when the answer comes.
- `Registered`: a Setting with a watcher has a value, one that is being read has
  none. Otherwise an answer could replace the value of a watched Setting.
- `AcceptedAreKnown`, `EndedHasNothing`: whoever the service has accepted and
  not lost is in `_clients`, and only clients that have ended are lost. `TypeOK`
  needs it because the service forgets clients at the end of a round only.
- `Notifying`: while the service tells of a write, a subscriber is yet to be
  told, or was told last of all, or has every Setting up to date.

`StaysCurrent` speaks of two states, the first with a write being told. The
argument is the state function `Current(c, s)`: the client is yet to be told, or
the last notification on its way to it is of the value of the service, or there
is none on its way and the value is that of the service or its own write is on
its way; and a Setting that was destroyed is not made again. `IInv` gives
`Current` in the first state, every step keeps it (a write that the service
takes from anybody makes it true by `IInv` in the next state), and it gives
`cached = repository` when nothing is on its way. What it needs from a loop is
that `remove_all_match` keeps exactly whoever is not gone (`ConnectedFacts`).
`Connected` says where each of them goes: as many places from the first as are
kept before it. The lemma is by counting. The place is between 1 and the number
of those kept, and no two have the same one; so each place is that of somebody.

### Compositor

`IInv` has the types (`TypeOK`, with: the client that is being destroyed was
disconnected) and, while the compositor is up:
- `Well`: each window is managed once and is that of a client in `_clients`; the
  focus is managed. "Once" is what makes a closed window be gone: without it
  `RemoveFirst` could leave another, and `DestroyClient` a dangling pointer.
- no connection is pending twice, and for each application that lives:
- `Placed`: where its connection is. It is pending exactly while it connects, in
  `_clients` from then on, and disconnected only after its goodbye was handled,
  which is the last message that it sends.
- `Due`: what it has sent and what it has yet to receive, at each of its
  locations. While it waits for an answer, the request is the last that it has
  sent, and no answer is on its way; or all that it has sent needs none, and what
  is on its way to it is events and one answer, of the type that it waits for.
- `Shows`: for each window, its fate. If the last message about it that was not
  handled is a "create", the application shows it; if a "destroy", it does not;
  if there is none, it shows it exactly when it is managed. A "flip" is about
  nothing. This is the strengthening of the last part of `WindowsHaveClients`,
  which is `Shows` for an empty queue. It needs a "flip" to be of a window that
  is managed when it is handled, since only then is there an answer: that is
  `Shows` again.

No application depends on what is done with another: `EventsOnly` says that a
change of the focus, a window that is closed or a round of input sends living
applications events only, and disconnects none of them; `Aside` is all that
`Consistent` of an application reads, so that a step which leaves that alone
keeps it (`AsideFrame`). A sweep closes windows of the client that it destroys
only, who is either gone from `alive`, or has said goodbye and shows nothing:
each living client keeps its windows.

`AnswersCorrect` is the safety behind `AnswerComes`: whoever waits has its
request on its way to the compositor or the answer on its way back, and nobody
else is sent an answer. `LivingAreConnected` bounds the second finding of section
5: the assertion of `handle_request` fails for applications that have ended, and
never for one that lives.

### Memory

`IInv` has `TypeOK` and, while the kernel is up (a kernel that panics stops, and
one that has read an object it had freed is not followed further):
- `Sound`, in four parts. `Counted`: the count of an object is the number of its
  references, as a finite set of pairs, of the mappings (process and place in the
  list) and of the calls. `Partition`: the pages of the holders are disjoint, and
  together they are the used ones. `Objective`: an object lies within the memory,
  and a number that was not given yet is free. `Shown`: the mappings of a process
  are as large as their objects, an entry of its page tables leads to one of them
  at that page, and in a space that maps at the start of pages they do not overlap
  and are all shown. A space that has two mappings in one entry keeps only the
  first half, which is what the code keeps: `Unmap` clears the entries of all, and
  `MapAt` writes those of the last.
- `CallShape`: which object and which addresses a call has at each location. A
  `map` that was found not to collide still does not when it maps: only its own
  process changes its address space. The comparison is in bytes; lemmas `Factor`,
  `WholePages`, `SomePages` and `NotCollidingFits` say what it means for pages.
- `Reserve`: there is a number for each object that a call is about to create,
  which keeps the bound on the objects from cutting a call in two.

The steps of a call, of a clone and of a destruction are made of the operators
of `Memory`, and a clone or a destruction goes through every mapping in one step
of the model. So what each operator keeps is a lemma about `Sound` of any memory,
address spaces and calls (`Fine`), and not about the variables: creating an
object, taking or giving back a reference, adding a page table, mapping, unmapping.
In the middle of such a step a reference may belong neither to a mapping nor to
a call (a clone has created an object and not mapped it yet); it is then held by
one more caller, `Extra`, who is no process. `Gains` and `Loses` say what a
holder's change does to `Partition`.

Three definitions go through a range or a list by recursion: `WithTables` over
the addresses, `CopiedTo` and `Unmapped` over the mappings. For each, a state
function says what holds after the first i of them (`Tabling`, `Copying`,
`Peeled`), and lemma `Recursion` at the top of `MemoryProofs` gives the function
that satisfies the recursion and the value of it at the end. `TaskMemory` states
these recursions on `0 .. n`, one named operator for a step (`WithTable`,
`Copied`), so that there is something to prove about.

`ReferencesCorrect` ends with a bijection: `ReferencesCounted` counts mappings
and processes, `Counted` counts pairs.

What is assumed of the constants, in `MemoryAssumption` and
`TaskMemoryAssumption`: sizes are numbers, a page table covers at least one
address, a page has at least one byte, and the processes at the start, with the
page of the kernel, fit in the memory. The run `memory` evaluates them.

### Only model-checked

All liveness: `CallReturns`, `WaiterReturns`, `AnswerComes` and the others under
fairness are out of the prover's reach. Every safety property that a passing run
checks is stated by a theorem.

## 5. Findings

- `lock_ensure` (`Lock.h:111`). `release_for` frees the lock and then erases
  `_holder`. A task preempted in between (a seek or a stat, which have allocated
  nothing) erases the name of the next owner,
  whose own release then fails `ensure_acquired_for` ("lock-held-by-someone-else").
- `compositor_goodbye` (`apps/compositor/Client.cpp:131`). A client that said
  goodbye is marked disconnected and stays in `_clients`, with its notifier,
  until the next sweep (`main.cpp:103`, `119`, `127`, `132`). The answer to a
  goodbye is never sent, since the client is marked first: the application waits
  until its connection is closed. If it is canceled or crashes before the sweep,
  its connection becomes readable, `handle_request` fails its
  `assert(!_disconnected)` (`Client.cpp:140`) and the compositor aborts. The run
  has a single application, so that nothing else can mark it; a failed send
  (`Client.cpp:275`) leads to the same state.

What the models reach that no document or test promises otherwise, so that no
property forbids it: a read of a pipe whose last writer has closed returns
`ERR_STREAM_CLOSED` although data is left (`Pipe.cpp:31`); two renames in
opposite directions wait for each other for ever (`Filesystem.cpp:235`); a
directory may be moved into its own descendant (`Filesystem.cpp:214`); a reopened
or copied handle can only be closed (`Task-Handles.cpp:140`); a `create_pipe`
with one slot left deletes its handle twice (`Task-Handles.cpp:418`);
`task_memory_include` reads an object it has given back (`Task-Memory.cpp:168`);
`list_iterate` goes on from a freed item (`List.cpp:460`); the collector may hang
the machine (`Task-Handles.cpp:132`), and so may any call that has allocated and
spins on the lock of a preempted process (`Handle.cpp:21`); two mappings in the
middle of pages may share an entry (`Task-Memory.cpp:92`); the handles and the
memory of a clone are never given back (`Task.cpp:97`); a copy of a handle may be
stored outside of the table (`Task-Handles.cpp:30`); a process that waits after
the end may be told `PROCESS_FAILURE` (`Blocker.cpp:97`).

## 6. Not modelled, and why

- The interrupt dispatcher, drivers and the terminal's emulation: registers and
  formats. The dispatcher is one kernel task that blocks as the scheduler's
  model describes; the terminal as a node is two rings with the counts of its
  handles, as a connection.
- The kernel's own address space and heap, and the memory map at the start: they
  are set up once and used with the interrupts disabled. `hj_memory_map` accepts
  addresses from 1 MiB on, where the page tables are those of the kernel: a
  process that maps there changes the kernel's, which the model leaves out. Empty
  and huge memory sizes are not asked for in the run. The copy-on-write of
  `CowSelfTest.cpp` is of functions that the tree does not define.
- Stat, tell and call of a handle, the listing of a directory: they read or
  reach a device. The poll of several handles is `Poll` in `Scheduler`, a wait
  with a timeout. An unlinked node is not freed in the model: it is reached from
  handles only, and no property needs its memory.
- The end of the settings service or of the compositor as seen by clients,
  messages cut short by a buffer that is almost full, paths with wildcards, the
  class `settings::Client` (nothing uses it), a callback that makes a request
  of its own or runs a nested event loop, and callbacks that unregister timers
  and notifiers that the loop is walking.
- Drawing, damage, moves and cursors in the compositor, and the failure to map
  a window's buffers.
- The heap allocator, containers, text formats, graphics and media: sequential
  code that unit tests reach. Vendored code.

## 7. Plan

What is left, as models, each with its proofs: the terminal beside `Socket`, and
the interrupt dispatcher. Of what is modelled, no safety property is left to be
proved.
