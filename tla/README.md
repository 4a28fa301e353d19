# Verification of the Escape kernel

TLA+ models of parts of the Escape kernel and of the driver framework on top of
it, with TLC runs on small instances and TLAPS proofs for the scheduler, the
semaphore and the mutex, channels and devices, the timer, the life of processes
and the file descriptors.  Paths below are relative to `src/source/`;
`PROJECT.json` maps every definition to the lines it models.

## The system and its parts

Escape is a microkernel with SMP support. Kernel code is not preemptible, so on
one CPU a thread runs until it leaves the kernel or switches away; on several
CPUs everything interleaves except for what spinlocks protect. Drivers are user
processes; files, devices and file systems are reached through the VFS.

| part | state | operations | talks to |
|---|---|---|---|
| scheduler (`kernel/src/task/sched.cc`) | ready queues, event lists, ready mask and count, thread states | perform, wait, wakeup, block, unblock, adjustPrio, removeThread | everyone that sleeps |
| signals (`signals.cc`) | signal mask, T_IGNSIGS | addSignalFor, checkAndStart | scheduler, every interruptible wait |
| threads, processes, terminator (`thread.cc`, `proc.cc`, `terminator.cc`) | thread and process tables, references, exit states | create, clone, terminate, kill, waitChild, join | scheduler, file descriptors, VFS |
| semaphore, mutex (`semaphore.cc`, `mutex.cc`, `blockedlist.cc`) | value, waiter list, holder, depth | down, tryDown, up | scheduler, signals |
| process semaphores, interrupts (`sems.cc`, `interrupts.cc`) | tables of reference-counted semaphores | create, op, destroy, fire | semaphore, signals |
| timer (`timer.cc`) | delta list of sleepers and alarms | sleepFor, removeThread, tick | scheduler, signals |
| VFS nodes (`vfs/node.cc`, `vfs/vfs.cc`) | tree, names, reference counts | openPath, ref, unref, destroy, mount | channels, open files |
| channels and devices (`vfs/channel.cc`, `vfs/device.cc`) | message lists, message count, last client | open, read, write, cancel, close, send, receive, getwork | scheduler, nodes, drivers |
| open files, file descriptors (`vfs/openfile.cc`, `filedesc.cc`) | global table, per-process table, reference counts | assoc, dup, redirect, close, getWork | nodes, processes |
| memory (`mem/`) | frames, regions, page tables, swap map | allocate, map, fault, swap, copy-on-write | processes |
| driver framework (`lib/esc/ipc`, `include/esc/ipc`) | handlers, request queue | loop, read, write, cancel, close | channels |

What is hard about them: wakeups and signals that arrive between the decision
to sleep and the switch; one pair of links per thread for two kinds of lists; a
flag that is tested on one CPU and set on another; two locks for one counter; a
request that is cancelled while its answer is on its way; a driver that dies
with clients asleep; references dropped twice or not at all.  `PROJECT.json`
lists these hazards at the lines where they bite.

## Modules

| module | models | checked by |
|---|---|---|
| `Sched` | the scheduler with the steps of signals, threads and interrupts that race with it | `MCSched`, `SchedProofs` |
| `SchedProofs` | proofs: the lists of threads, the inductive invariant `SchedInv`, its preservation step by step, and the theorems about `Sched` | tlapm |
| `Semaphore` | BaseSem, Semaphore, BlockedList, SList and DList with their pointers | `MCSemaphore`, `SemaphoreProofs` |
| `Mutex` | the recursive mutex, on top of `Semaphore` | `MCMutex`, `SemaphoreProofs` |
| `SemaphoreProofs` | proofs: the semaphore with signals; the intrusive lists; the semaphore without signals and the mutex | tlapm |
| `Channel` | device, channels, their nodes, clients and a driver | `MCChannel`, `ChannelProofs` |
| `ChannelClients` | proofs: the inductive invariant of `Channel`, its two parts `BaseInv` and `TalkInv`, and the steps of the clients | tlapm |
| `ChannelDriver` | proofs: the steps of the driver, and so all steps, keep `TalkInv`; what follows from it | tlapm |
| `ChannelProofs` | proofs: the steps of the driver keep `BaseInv`; the theorems about `Channel` | tlapm |
| `SeqOps` | operators on sequences, as in `SequencesExt` | used by `Semaphore` and `Channel` |
| `Timer` | the delta list of sleepers and alarms, the calls alarm and sleep, the timer interrupt | `MCTimer`, `TimerProofs` |
| `Countdown` | what the timer promises: independent timers with a time left each | `Timer` implements it |
| `TimerProofs` | proofs about the delta list, and the refinement | tlapm |
| `ProcLife` | processes and their threads from clone to kill, with the terminator | `MCProcLife`, `ProcLifeProofs` |
| `ProcLifeProofs` | proofs: no wakeup of a parent or of a joining thread is lost (`WakeupInv`); references, kill and release of a process (`LifeInv`) | tlapm |
| `Files` | file descriptors, regions that are mapped from files, and open files with their references and usages | `MCFiles`, `FilesProofs` |
| `FilesProofs` | proofs: the references of open files are counted; no file is freed in use, as long as nothing is torn | tlapm |

`SeqOps` has the few operators of `SequencesExt` that `Semaphore` and `Channel`
need.  `SequencesExt` itself extends `Bags`, with which every step of a proof
takes the prover ten times as long.

### Sched

The variables are the fields of `Thread` and the static fields of `Sched`;
`pc` is the position of a thread in the few sequences that are not atomic
(between `wait()` and the switch, inside `switchNoSigs`, inside `addSignalFor`,
between `removeThread` and the last switch).  Every function of class `Sched`
holds `Sched::lock` and is one action.  The loop of `Sched::wakeup` is one
action per woken thread with the lock held, because masks and flags may change
in between.  `perform` is split by what happens to the old thread; `pick` is the
choice of the new one, including the rule that the old thread is passed over if
others are ready.

Abstractions: time is not modelled, so `adjustPrio` gets its verdict ("bad" or
"good" blocked time) as an input.  `unblock` may be called for any thread at any
time, which covers all callers.  The IPI that wakes an idle CPU is an idle CPU
that may call `perform` at any time.  `kill` requires that no signal to the
thread is under way: sender and terminator hold PLOCK_PROG of the process.

### Semaphore and Mutex

The waiter list is an SList and the ready queue a DList over the same links of
`Thread`, so both are modelled by heads, tails and `next` pointers; `prev`
pointers are written but not read by the operations involved.  A call of
`down()` is cut wherever the code drops the lock or enters the scheduler.  An
interrupted `down()` works without the lock, so there every access is a step:
each item that `SList::remove` visits (`visitItem`), the removal (`unlink`), the
load and the store of the value (`giveUp`, `storeValue`) and the wakeup.  With
several CPUs the holder of the lock gets in between.  When the code would follow a null pointer or run a thread that is not ready, the
model sets `broken` and stops.  What a list holds is a walk: the threads met
from its head on, cut after as many as there are threads, since a broken list
may have a cycle (`IsWalk`).  All threads have one priority.  With the lock held,
taking the first waiter out of the list and unblocking it in `up()` is one action.
Handlers of fatal signals are not modelled.

`Mutex` extends `Semaphore` with holder and depth.  "In" means that the
semaphore was acquired; `own` is the rest of `Mutex::down`.

### Channel

One device, one channel node per client, and a driver with two threads: the one
in `Device::loop` and one that gets input and answers queued reads.  The driver
is `SerialTermDevice`, plus an answer to open as the file system drivers give
it (granted or refused).  Everything under `waitLock` or `treeLock` is one
action; `VFSChannel::invalidate` is split, because it changes `msgCount` under
`treeLock` only.  `InKernel` are the threads in the kernel that do not sleep:
at most `NCPU`.  The scheduler is a set of waiting threads, which the theorem
`WakeupsNotLost` of `SchedProofs` justifies.

Abstractions: data, offsets and names; opening the file for the driver is one
step with the creation of the channel; a channel that has been freed is not used
again for another node; signals are handled when the thread leaves the kernel;
request-ids are unique (a client sends with an id of `FreeRids`, which nobody
refers to; `RidCount` bounds those in use).  A dying driver closes
the device file before the files of channels, as descriptors are allocated in
ascending order.

### Timer and Countdown

`listener` is the list of `TimerBase`; the free list is the bound
`ListenerCount` on its length.  Everything under `TimerBase::lock` is one
action: `sleepFor`, `removeThread` and the interrupt, which is split by the CPU.
`alarm` drops the lock between its two calls and is two actions; `sleep` blocks
with the lock held and removes its entry after it has been woken up by a tick
or a signal.  `slice` is the time since the last reschedule.  A thread may have
an alarm and sleep, that is, two entries, although the comment in
`timer.cc:109` says otherwise; `removeThread` then takes the first.  It is called
once when a thread ends, which is enough (`GoneHasNoEntry`), because a thread
leaves one of the two entries behind its sleep at most.

`Countdown` has a sequence of timers, each with its own time left: `Start`,
`Cancel`, `Tick`, and the ends of a sleep and of a signal.  The refinement
mapping gives every entry the sum of the times up to it.  So the property
`TimersCountDown` says that no insertion, removal or tick changes the time of
another timer, and that a tick ends exactly the timers whose time is over.

### ProcLife

A thread slot belongs to a process id; slots and ids are used again.  `state`
stands for the flags P_PREZOMBIE and P_ZOMBIE, `killed` for P_KILLED.  `prog`,
`childLock`, `procLock` and `refLock` are the holders of the locks.  A function
is cut where it may have to wait for one of them: `clone` into three steps and
its failure, `waitChild` into the test, the sleep and the test afterwards,
`kill` into five steps, `killThread` into the death of the thread, the wait for
`childLock`, the notification and the release.  `dead` is the list of the
terminator, which waits until the thread has switched away.  Signals are fatal
ones, sent by anybody at any time; SIGCHLD is ignored, as by default.  Every thread
holds a reference of its process but the first one of process 0:
`createInitial` takes none, and `initProps` starts with one for the process.

Left out: `exec`, `join` of one thread, the references that a thread takes on
its own process while it works, and the release of files, memory and groups
inside `terminate` (one step, `release`).

### Files

A slot of the global file table has a count of references (descriptors and
regions) and of usages (threads inside a system call); `fds` are the tables of the
processes, which start with `InitFds` entries and double up to `MaxFds`
(`TableSizes`), `regtree` the files of their regions at the places `Addrs`.  What
happens under PLOCK_FDS, the lock of the address space or the lock of a file is
one step.  So `close` is request, unassoc, close and release, and other threads
and processes that share the file come in between, also a second thread that
closes the same descriptor.  `mmap` requests the file, `VirtMem::map` gives the
region a reference, and the file is released; `map` may fail before or after the
region is added, and removes it again in the latter case.  `munmap` and
`doRemoveRegions`, which runs after `FileDesc::destroy` when a process ends, drop
the reference of a region with `VMTree::remove`.  `use` stands for every call that
requests a file, works on it and releases it (read, write, seek, tell, fcntl,
fstat and so on).

`doClose` counts one usage as the one of its caller.  `redirect` and
`VMTree::remove` have none; for them the comment in `openfile.cc:355` assumes that
nobody uses the file when its last reference goes.  `torn` are the threads for
which this is not so: `Bereft`, those that use a file whose last reference is
dropped that way, and those whose descriptor no longer refers to the file they
have requested when they take it out of the table.  `torn` is set by these causes,
whether or not the file is then freed.

Left out: positions and contents, exclusive opens, `dup` of a descriptor that is
not open (the code follows a null pointer there), joining a region that another
process shares, and the references of mount points, of the files that drivers
get for channels and of files that the kernel opens for itself.

## Runs

| run | instance | shows |
|---|---|---|
| `Sched` | 2 threads, 2 CPUs, 1 event, 2 objects, 2 priorities | type invariant, consistency of queues and event lists, one CPU per thread, no lost wakeup, no missed signal, priority order; no deadlock |
| `SchedLive` | 3 threads, 1 CPU, 3 priorities | no starvation of CPU-bound threads |
| `SchedExit` | as `Sched` | violation: the last switch of an exiting thread may return |
| `Semaphore` | 3 threads, 1 CPU, value 1, two signals, with and without allowSigs | units are conserved, a signal ends the wait |
| `Mutex` | 3 threads, 2 CPUs, depth 2, no signals | the assertion of `Mutex::down`, intact lists, units and waiters, every down returns; no deadlock |
| `MutexSigs` | the same with one signal | violation: `Mutex::down` returns while another thread is the holder |
| `Channel` | 2 clients (one O_NOBLOCK), 1 CPU, the driver may die | exact message count, nobody sleeps for nothing, no response is left behind, everyone is served |
| `ChannelSMP` | 2 clients, 2 CPUs | violation: an update of `msgCount` is lost |
| `ChannelExit` | 2 clients, 1 CPU, the driver may die | violation: a channel node is freed while the client has it open |
| `Timer` | 2 threads, 2 CPUs, 3 listeners, ticks of 5 ms, times of 5 and 7 ms | the list implements `Countdown`, sums stay in range, threads that are gone have no entry, sleepers have one, every sleep returns; no deadlock |
| `ProcLife` | 3 process ids, 4 thread slots and the terminator | exact references, no lost wakeup in waitChild and join, a child is killed once and by its parent, resources are released by the last thread, a process that terminates ends |
| `Files` | 2 processes, 3 threads, 2 slots, tables of 1 to 2 entries, one region per process | as long as nothing is torn: exact references, and no file is freed while it is used; closed files are freed, unless they were truncated or mapped |

Bounds.  Two threads on two CPUs suffice for every race of two parties in the
scheduler (sleeper and waker, target and sender); three threads are needed for
a holder, a waiter and a third thread that meets both lists.  Two clients show
unfairness and messages for somebody else.  Two priorities and a forgive count
of 2 let priorities move in both directions and hit both ends.  One signal
(`MaxSignals`) is enough for the races of `MutexSigs` with one sender; `Semaphore`
has two, so that two calls of `down()` are interrupted.  With `RidCount` 7 the
two clients always find an id that is not in use.  In `Timer` a tick ends an
entry exactly or leaves a rest of it, two entries may end with one tick, and
three listeners for two threads run out.  `ProcLife` needs a grandchild (an
orphan that process 0 gets), a process with two threads, of which one waits for
a child or joins the other, and ids that are used again; `Calls` and `Awaited` say which thread
makes which call, so that these cases stay small.  In `Files` two slots and two
descriptors are enough for a table that grows and gets full, a file with two
references, and a slot that is used again.  The proofs do not have bounds.

Two runs stop at states where the code has already gone wrong.  `ProcLife` does
not go on after `waitChild` has returned with `childLock` held (`LockReturned`),
`Files` not after `redirect` or `VMTree::remove` has dropped the last reference of a
file that a thread uses, or a thread has lost its descriptor to another `close`
(`NothingTorn`).  What `Files` shows is thus about the behaviours in which the
assumption of `doClose` holds.

Deadlock is not checked where the model may stop: `Semaphore` stops once a list
is broken, in `Channel` and `ChannelExit` nothing happens anymore once the
driver is dead and all files are closed, and in `ProcLife` process 0, which is
its own parent, may sleep in `waitChild` without any other process, and locks
may cross (below).

### What the violations show

* `SchedExit`: `setReady` turns the pending ZOMBIE of a running thread into
  READY.  A signal that arrives between `terminate()` and `switchAway()` makes
  the thread continue behind A_UNREACHED (`proc.cc:622-624`).
* `MutexSigs`: a sender tests T_IGNSIGS before `switchNoSigs` has set it and
  unblocks the thread after it blocked.  `BaseSem::down` does not test its
  condition again, so `Mutex::down` fails its assertion (`mutex.cc:33`).
* `ChannelSMP`: the comments in `channel.cc:66` and `device.h:73` name
  different locks as the one that protects `msgCount`; both are used.
* `ChannelExit`: the destruction of the device and the close of the driver's
  file each drop a reference of the channel, one more than they hold
  (`node.h:386`).

### What the passing runs leave out

The passing runs state what holds next to the following, which the code does as
well; `PROJECT.json` lists them among the hazards.

* `waitChild` keeps `childLock` if there is no child left after its sleep
  (`proc.cc:765`): afterwards nobody can be waited for or killed.
* `killThread` holds `childLock` and wants PLOCK_PROG of the parent
  (`proc.cc:642`), `kill` of that parent holds it and wants `childLock`
  (`proc.cc:712`).  `Stuck` in `ProcLife` names this and two similar pairs.
* `startThread` tests the flags before it has the lock (`proc.cc:390`); the late
  thread gets no SIGKILL and `terminate` waits until it ends by itself.
* Two threads that call `terminateThread` at once both see two threads
  (`proc.cc:614`): the process becomes a zombie without `terminate`.
* `redirect` closes a file without a usage of its own (`filedesc.cc:151`), and so
  does `VMTree::remove` (`vmtree.cc:104`) for `munmap`, for `terminate` and for a
  `map` that fails late (`virtmem.cc:259`).  `doClose` takes one usage for the
  caller's (`openfile.cc:357`): if another thread is the only user of that file,
  the file is freed under it.  Without its condition `NothingTorn`, TLC finds
  `NotFreedInUse` violated by `redirect` and, without `redirect`, by `munmap`.
* `close` requests the file and takes it out of the table in two steps
  (`sio.cc:474`): two threads that close one descriptor at once both
  drop its only reference.
* `truncate` does not release its usage (`sio.cc:189`), so the file stays.
* An interrupted `down()` leaves the waiter list and increments the value without
  the lock (`semaphore.cc:36-37`).  With `NCPU` = 2, TLC finds `UnitsConserved`
  violated: another CPU changes the value between the load and the store.
* A read takes the data without waiting (`channel.cc:321`): if the device cannot
  cancel, a client with O_NOBLOCK may leave it behind (see the proofs below).
* The comment in `timer.cc:109` says that a thread cannot be in the list twice;
  with an alarm and a sleep it is, and a sleep that a signal ends may take the
  alarm out and leave its own entry behind.

Each of the violation runs has one property; the passing runs show what holds next to
it: the mutex without signals, the semaphore with signals on one CPU, the message count on one CPU, the wakeup of the
clients of a dying driver.

## Fairness

* `CpuBoundSpec`: weak fairness of `perform` on every CPU and of `adjustPrio`
  for every thread; the timer interrupt ends time slices and adjusts priorities
  once per second.
* `MutexFairSpec`: weak fairness of the steps inside the kernel, which is not
  preempted, and of idle CPUs; strong fairness of leaving the critical section
  and of the end of time slices.
* `FairSpec` in `Channel`: weak fairness of the steps of clients in the kernel,
  strong fairness of the driver, which gets the CPU again and again (run
  `SchedLive`).  Nothing makes a client call, a signal arrive, input arrive or
  the driver die.
* `FairSpec` in `Timer`: weak fairness of the timer interrupt on the CPU that
  looks after the list, and of a woken thread.
* `ProcLife`: weak fairness of every step inside the kernel; strong fairness of
  the terminator and of a thread that starts another one, which wait for a
  spinlock or mutex that others take again and again; strong fairness of
  `waitChild` in process 0, whose program `user/init/init.cc` waits for any child
  in a loop.  Nothing makes other processes wait for their children, end or get
  signals.
* `Files`: weak fairness of every step inside the kernel.

`Served` assumes that opens are not refused again and again.  Without that
assumption the round-robin of `getWork` is not fair: a refused channel is
unlinked while it is the last served one, the search then begins at the newest
channel, and a client that opens again is always served first.

## Proofs

`SchedProofs` proves, for any finite set of threads, any set of CPUs, events and
objects and any priorities (`SchedAssumption`), that `Spec` implies `[]SchedInv`.
`SchedInv` is the conjunction of `TypeOK`, `ReadyQueuesConsistent`,
`EventListsConsistent`, `RunningOnce`, `PendingBlock`, `NoLostWakeup` and
`NoMissedSignal`.  None of the parts is inductive alone: `NoLostWakeup` needs to
know what a running thread that is about to block is registered for
(`PendingBlock`); that needs the event lists to be exact, so that a wakeup
removes the right thread; the event lists need that a thread is never in a ready
queue at the same time; the queues need that `perform` on one CPU never takes
the thread of another (`RunningOnce`); and `NoMissedSignal` needs that the
sender runs through to its last step.

The proof rests on lemmas on the lists (append, prepend, unlink, tail), on the
ready queues, `pick`, the switch (`PerformSwitches`: every switch takes a thread
of the highest eligible priority and leaves consistent queues) and `setReady`.
First come the steps that touch no queue, then the others.  The library's finite
sets are needed for the cardinality in `rdyCount`.  `HighestFirst` is an action
property that follows from the invariant and the lemma on `pick`.

The theorems: `Invariance`, `TypeCorrect`, `QueuesCorrect`, `EventListsCorrect`,
`MutualExclusion`, `WakeupsNotLost`, `BlockOnlyBeforeSwitch`, `SignalsNotMissed`,
`HighestFirst`.

`TimerProofs` proves, for any threads, number of listeners, tick and durations
(`TimerAssumption`), `TypeOK` (`TimerTypes`), `DueInRange` (`TimerTypeCorrect`),
`GoneHasNoEntry` (`TimerEntries`), `SleeperHasEntry` (`TimerSleepers`) and that
`Spec` implements `Countdown` (`TimerImplementsCountdown`).  `Due` is a recursive
function on the positions of the list; the lemmas `DueUnique` and `DueExists`
show that it is the function of the partial sums, with a smallest
counterexample in place of induction.  `InsertedDue`, `RemovedDue` and
`PassedDue` say what the three operations do to the sums: insertion adds one
and keeps the others, removal takes one out, a tick takes `TimeInc` from each.
Everything else follows from them.  The types need `DueInRange` (the difference
that a new entry leaves to its successor must not be negative), and the owners
need the types (`OwnersInv`).  The number of entries and the entry of a sleeper
are proved together: what `removeThread` takes out is the thread's own concern,
so no step of another thread and only a tick takes an entry from a sleeper, and
the tick then wakes it up.

`SemaphoreProofs` proves, for any finite set of threads, CPUs, initial value and
number of signals, with and without `allowSigs` (`SemAssumption`), the types
(`SemaphoreTypes`) and `SignalEndsWait` as long as nothing is `broken`
(`SignalledAwake`).  `UnitsConserved` (`UnitsKept`) has one CPU as a hypothesis:
then one thread runs at a time (`OneRuns`), and so nobody else changes the
value between the load and the store of an interrupted `down()`.

Its second half proves what holds without signals (`MutexSpec`; a mutex is a
semaphore with one unit whose `down` does not allow signals, `MutexAssumption`).
The inductive invariant is `MutexInv`.  Its core is `Lists`: there
are two sequences without a common thread, the waiting and the ready threads,
and the links of each thread lead to its successor in its own sequence.  As the
waiter list and the ready queue share these links, an operation on one list is
shown to leave the other one alone because a thread is never in both; that
needs to know where a thread of a given state is in `down()` (`Positions`) and
that one thread at a time is between entering the list and giving the lock back
(`LckHeld`).  The lemmas
`AppendList` and `PopList` say what the operations on heads, tails and `next` do
to the sequence, and `SameList` that a list stays if its links do.  From
`MutexInv` follow `ListsIntact` (`ListsStayIntact`), `UnitsMatchWaiters`
(`UnitsAndWaiters`), `AcquiredMeansUnit` (`AcquiredHaveUnits`: those that have
acquired the semaphore and those that wait for it are different threads, and
the value counts both), the types (`MutexTypes`), and `MutexAssert`
(`MutexAsserted`: with one unit, the thread that has it is the only one that can
be the holder).  With signals the assertion fails (`MutexSigs`).

`ProcLifeProofs` proves, for any processes and finite set of threads
(`ProcAssumption`), every safety property of the run.
`ChildWakeupNotLost` (`ChildWakeups`) and `JoinWakeupNotLost` (`JoinWakeups`)
follow from the inductive invariant `WakeupInv`.  It adds who holds `childLock` at
which label (`ChildLockHeld`), also after a leak, and `WaitsInTime`: between the
test of `waitChild` and its sleep only the terminator can make a zombie, and it
then still waits for `childLock` to notify the parent.  A thread that is about
to sleep is thus in the event list before the notification.  `QuietStep` covers
all steps at which neither lock nor wakeup is at stake.

`RefsExact` (`ReferencesExact`), `KilledOnce` (`OneKiller`) and `ReleasesAlone`
(`ReleasedAlone`) follow from `LifeInv`, which is inductive relative to
`WakeupInv` and has the latter two as parts.  As a process is killed by at most
one thread, its references are the number of its threads and one each for the
process itself, for `kill` and for `killThread`, without the first thread of
process 0 (`Users`; `RefsOfUsers` leads back
to `RefsExact`).  `ProcInv(p)` says which of these a process in a given state can
have: a free one none, a zombie no threads, one that a clone has not yet given
its thread only itself, and one that is being removed no reference; `OneAtATime`
says that removals exclude one another and that a clone belongs to one thread.
`OthersSame` and `SameProc` reduce each step to the
one process that it is about.  The types (`ProcLifeTypes`) need the list of
processes, the holders of the locks and the places of the actors on top
(`ListOfProcs`, `Holders`, `Places`).

`ChannelClients`, `ChannelDriver` and `ChannelProofs` prove the safety properties
of the run `Channel` for any finite set of clients, with any of them O_NOBLOCK, any
operations of the device and any number of request-ids (`ChannelAssumption`).
The theorems have one CPU as a hypothesis: eco32, MMIX, x86_64 (which switches
SMP off, `config.cc:53`) and i586 with `nosmp`.  With two CPUs `MsgCountExact` is
false, as `ChannelSMP` shows.

The inductive invariant is `BaseInv /\ TalkInv`.  `BaseInv` is inductive alone
and gives `TypeOK` (`ChannelTypeOK`) and `MsgCountExact` (`MessagesCounted`): one
thread at most is in the kernel (`Kernel`, `Alone`), so nobody sends or receives
between the two halves of `invalidate`; what the driver holds is told by its
position (`Hands`); the nodes with a name are the children of the device, each
once (`Children`).  The count is exact because every step changes one list and
the count by the same number (`CountChange`).

`TalkInv` says where a call is.  A request is in one of eight places (sent, with
the driver, about to be answered, queued, its data about to be sent by either
thread, answered, or cancelled and gone) and its cancel message in one of five.
`At(c, o, k)` gives for each pair of places what is in the two lists of the
channel, what the driver has in hand and in its queue, which pairs go together,
and what the flags of `receive` may be.  `InTouch` says that a client is without
a file, idle, about to send, in a call at such a pair of places, closing or
after a failed open; its references and the file of the driver go with it.
The rest are the ids, which differ (`Distinct`), the queue of the driver
(`Queue`), a driver that dies (`Dying`, `DeviceNamed`) and what sleepers wait for
(`Sleepers`).  There is one lemma per action; a step is about one client, and
`SameClient` covers the others.  From the invariant follow `NoLostWakeup`
(`ChannelNoLostWakeup`) and `ChannelConsistent` (`ChannelIsConsistent`).

These two have a second hypothesis, `Cancellable`: the device supports cancel,
or no client has opened it with O_NOBLOCK.  The proof does not go through
without it, for a good reason.  If a device cannot cancel, `getReceiveFlags`
makes the client wait for the response in spite of O_NOBLOCK, but the data of a
read is received without waiting (`channel.cc:321`).  If the driver is
interrupted between its two replies, the client returns and the data stays in
the channel, which the comment in `channel.cc:296` wants to prevent.

`Library` collects the facts about natural numbers and finite sets that the
lemmas use.  They have it as a hypothesis, and `LibraryFacts` in `ChannelProofs`
proves it from the library's theorems, so the long modules do not have those in
their context.

`FilesProofs` proves, for finite sets of processes, threads and places for regions,
any files and any table sizes that doubling leads to (`FilesAssumption`), as long
as nothing is torn: `RefsCounted` (`ReferencesCounted`), `NotFreedInUse`
(`UsedFilesKept`) and the types (`FileTypes`).  These theorems do not say that
nothing gets torn, which the code does not ensure.  The inductive invariant is
`FilesInv`.  Next to the references it needs that the usages of a file are at
least the threads that use it (`truncate` keeps some for ever), that a file which
has just been opened belongs to its opener alone, and that a process that exits
has one thread left and no descriptor once it removes its regions.  A step changes
the descriptors, the regions or the threads of one file by one element
(`OneFileStep`, `RemoveStep`, `MapStep`); `clone` gives all files of a process new
descriptors and regions at once, as many to each as it had in the parent
(`Copied`).

Only model-checked: liveness (`NoStarvation`, `MutexDownReturns`, `Served`,
`SleepReturns`, `ProcessesEnd`, `ClosedIsFreed`), since the prover has neither
fairness nor ENABLED; `SignalEndsWait` once something is `broken` and the types of
`Files` in the states where something is torn, at which the model stops.

## Not modelled

`PROJECT.json` gives a reason per component.  In short:

* Memory management (`mem/`), except for the references of regions to files
  (`Files`): frames, regions, copy-on-write and swapping work
  on page tables of the hardware; their state is too large for TLC without an
  abstraction that leaves out what can go wrong.
* Process semaphores, interrupt semaphores, groups and the locks of libc have
  no module; the semaphores they use have one.
* The directory tree: paths, mounts, permissions.  The references of channel
  nodes are part of `Channel`.
* `exec`, SIGCHLD handlers, `join` of one thread, exclusive opens, and of the
  channels `sharefile`, `creatsibl`, `bindto`, SIGCANCEL and the discarding of
  messages.
* Allocators, the ELF loader, file system formats, hardware drivers, libraries
  and applications: sequential code, or input and output without a protocol.
  They are most of the repository, so the mapped lines are a small share of it.
