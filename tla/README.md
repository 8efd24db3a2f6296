# TLA+ models of the thread pool

This directory holds the verification project of the thread pool under
`ThreadPool/`: TLA+ modules for its parts, TLC configurations that check them on
small instances, and TLAPS proofs for every instance.  `PROJECT.json` maps each
definition to the lines it models and lists runs, hazards, findings and theorems.

## 1. The system

| Part | State | Operations | Works with |
|---|---|---|---|
| `CPUThreadPoolExecutor` | `taskQueue_`, `threadsToStop_` | `add`, `threadRun`, `taskShouldStop`, `stopThreads`, destructor | derives from `ThreadPoolExecutor`, takes tasks from a `BlockingQueue` |
| `ThreadPoolExecutor` | `maxThreads_`, `minThreads_`, `activeThreads_`, `threadsToJoin_`, `isJoin_`, `threadList_`, `stoppedThreads_`, `observers_`, under `threadListLock_` or atomic | `setNumThreads`, `stop`, `join`, `addObserver`, `removeObserver`, `ensureActiveThreads`, `tryTimeoutThread` | starts threads, waits for their `startupBaton`, joins them |
| `StoppedThreadQueue` | threads that have left and await `join` | `add`, `take` | filled by workers, emptied by whoever owes a join |
| `DefaultKeepAliveExecutor`, `Executor::KeepAlive` | `keepAliveCount_`, `keepAliveReleaseBaton_` | acquire, release, `WeakRef::lock`, `joinKeepAlive`, `joinAndResetKeepAlive` | shutdown waits for the last token |
| `Baton` (with `Spin`, `Futex`) | one futex word | `post`, `wait`, `try_wait_for`, `reset` | used for thread start and for the last token |
| `UnboundedBlockingQueue` | a queue and a `LifoSem` | `add`, `try_take_for` | the default task queue |
| `MPMCQueue` | two ticket counters, slots with a turn sequencer each; if dynamic, arrays of them behind a sequence lock | blocking, ready, promised and timed reads and writes, `size`, `tryExpand` | below the bounded task queues |
| `LifoSemMPMCQueue`, the two priority queues | one or several queues and a semaphore | `add`, `take`, `try_take_for` | alternative task queues |
| `QueueObserver`, `ThreadIdWorkerProvider` | set of thread ids, exit lock | `collectThreadIds`, `addTid`, `removeTid` | called by workers and by profilers |
| `ExecutorBlockingGuard` | thread-local list | construct, destroy | one in each worker |

What is hard in this code: workers, producers and the owner interleave on atomics
that are read outside the lock and used later; three kinds of workers (timed out,
holding a poison pill, between two tasks) compete for `threadsToStop_`; joins are
promised in four places and paid from one queue; the executor's life ends when the
last token goes, which may be in the middle of `add`; a baton's wake-up may arrive
a lifetime late; a queue's tickets are drawn before their slots are free, and in a
dynamic queue before their array exists; a semaphore and the queues behind it are
never looked at in one step; threads exit while others hold their ids.

What makes each part correct: every task runs, the pool never exceeds its maximum,
each thread that stops is joined once and shutdown returns, an observer hears of
every thread; no token revives a dead executor and the owner returns when the last
one is gone; a posted wait returns and only a posted one returns true; the k-th
read of the queue returns the item of the k-th write; no item of a task queue waits
while its consumers sleep; an observer sees the end of each task it saw the beginning
of, and an id that was collected belongs to a living thread.

## 2. Modules

| Module | Models |
|---|---|
| `CPUThreadPoolExecutor` | the pool with both its classes, the default queue and the keep-alive count |
| `MCCPUThreadPoolExecutor` | symmetry for TLC |
| `CPUThreadPoolExecutorProofs` | theorems about the pool's counts of threads and joins |
| `ThreadPoolShutdownProofs` | theorems about tasks, tokens, observers and the end of the pool |
| `Baton` | the baton over a futex word, with lifetimes |
| `BatonProofs` | its theorems |
| `DefaultKeepAliveExecutor` | tokens, weak references and shutdown, composed with `Baton` |
| `DefaultKeepAliveExecutorProofs` | its theorems |
| `MPMCQueueBase` | slots, turns and strides: the arithmetic that both kinds of `MPMCQueue` share |
| `MPMCQueue` | the queue of fixed capacity |
| `MPMCQueueProofs` | its theorems, with the refinement of `FifoQueue` |
| `DynamicMPMCQueue` | the queue that grows |
| `DynamicMPMCQueueProofs` | its theorems |
| `FifoQueue` | the abstract specification that both implement |
| `PriorityTaskQueues` | `LifoSemMPMCQueue`, `PriorityLifoSemMPMCQueue` and `PriorityUnboundedBlockingQueue` |
| `PriorityTaskQueuesProofs` | its theorems |
| `QueueObservers` | `getQueueObserver`, `ThreadIdWorkerProvider` and the deletion of observers |
| `QueueObserversProofs` | its theorems |
| `MCMPMCQueue`, `MCDynamicMPMCQueue`, `MCPriorityTaskQueues`, `MCQueueObservers` | symmetry, scenarios and sets of numbers for TLC |

**Pool.**  Each worker has a control point (`wpc`), each producer and the manager
another (`cpc`).  A step is one access to an atomic, to the queue or to the
semaphore, or one critical section of `threadListLock_`, split where a thread
without the lock can run in its middle: around the start of new threads, around
each poison pill, and around the check for pending tasks in `tryTimeoutThread`.
`add` is `AddBegin` (token, `minThreads_`), `AddLoad` and `AddDecide` (`activeThreads_` and
`maxThreads_`, in either order, and addImpl's own token), `AddEnqueue`, `AddPost`, then
`ensureActiveThreads` if needed, `AddRelease`.  `setNumThreads` reads the queue's length
and stores `maxThreads_` (`StoreMax`) before it stores `minThreads_` (`ResizeDown`,
`ResizeUp`), for `add` needs no lock to see one without the other.
The semaphore hands a token to some waiter if there is one (any of them, LifoSem
would choose the latest), and `try_take_for` is `SemTake` or `SemWait`/`SemTimeout`
followed by `Dequeue`.  The three ways a worker stops are `StopAfterTask`,
`StopIdle` and `Retire`.  One manager thread resizes, observes and ends the pool,
as the code asks of its owner (`stop`, `join` and `setNumThreads` are not meant to
run against each other).  `stoppedThreads` is the length of `stoppedThreads_`.
`getPoolStats` is an operator on the state, evaluated for every set of threads it
may find idle, because `runTask` sets `thread->idle` without the lock.
Ghost variables: `submitted`, `done`, `drainDue`, `watched`, `resizes`.

**Baton.**  States and assertions are those of `Baton.h`.  `posts` and `life` record
how often `post` was called in which lifetime; `PostWake` may come after `reset`.

**Keep-alive.**  The count, the tokens each thread holds and the steps of `WeakRef::lock`,
with every step of the baton taken from `Baton` by `INSTANCE`.  `UsesBaton`
shows that the composition implements the baton's specification, whose guard "at
most one post in a lifetime" is a duty of its users.  In the pool's module
`joinKeepAlive` is the one step that waits for the count to reach 0: this is what
the runs `baton` and `keepalive` justify.  A `WeakRef` object has a count of its own
(`weak`, with `holds` for who has a token) and deletes itself with the last.

**MPMCQueue.**  Writers and readers run one protocol on the two sides.  The
sequencer of a slot is the number of its turn (`TurnSequencer` is a library class)
modulo `TurnSpan`, which is 2^26 there and 16 in the run: comparisons are made as the
class makes them, so that wrapping around is part of the model.  The queue never
looks at an item, so items are named by the order of their push tickets.  A
`scenario`, chosen in the initial state, fixes which ways of obtaining a ticket are in
use, whether a thread calls `size`, and how many tickets were drawn and served
before.  The stride is the one `computeStride` gives.

**DynamicMPMCQueue.**  The same slots, in several arrays.  `dstate_` is modelled as the
packed number it is: the sequence lock in the low six bits (locked, number of closed
arrays), the offset above.  A call draws or loads its ticket, reads the array in a
section of the sequence lock (`LoadState`, `LoadShape`, `Validate`), finds out whether
its ticket belongs to a closed array (`maybeUpdateFromClosed`), and then goes to its
slot, tries again, gives up or expands.  `tryExpand` is a chain of steps from `Lock`
to `Unlock`, so that other threads see every state between its stores.  `LoadShape`
loads the pointer, the capacity and the stride in one step, at which the expansion can
stand between any two of its stores; loads that a store separates need no steps of their
own, because `Validate` drops whatever was loaded while `dstate_` changed.  The arguments
of `std::max` in `tryExpand` are loaded in either order, as C++ leaves it open.  `home` is
the array a thread believes its ticket to belong to.

**PriorityTaskQueues.**  One module for three classes: `kind` tells a bounded queue
that throws, a bounded queue that blocks, and the unbounded one apart.
`LifoSemMPMCQueue` is the case of one priority.  An inner queue is represented by the
numbers of admitted and finished writes and reads, which is what `mpmc` shows of
`MPMCQueue`: order of admission, a read waits for the write of its number, a write
for the read that frees its slot.  `int8`, `queueOf` and `translatePriority` are the
arithmetic of priorities.  `began` is a ghost: what had been added when a consumer began its scan.

**QueueObservers.**  Producers and workers both run `getQueueObserver`, one access to a
slot of `queueObservers_` a step, with observers numbered in the order of their creation
and a count of deletions for each.  The recursive call for priority 0 is the
difference between `slot` and `pri`.  A worker's name is its thread id; it is used
again after `Exit`, as the kernel may do.  `threadsExitMutex_` is held by collectors
for reading and asked for by leaving threads for writing.  `destroyed` is the end of
the destructor, which `stop` allows only when the workers are gone.

## 3. Runs

| Run | Shows | Bounds |
|---|---|---|
| `pool_dynamic` | an item for each semaphore token, threads accounted for, the CHECKs of `stop`, `join` and the destructor hold; every task runs and `stop` and `join` return | a pool of 0 to 2 threads with timeouts, 1 producer, 3 tasks (one carries its token) |
| `pool_resize` | no count goes below zero, also when a poison pill outlives its resize; joins balance, the maximum is kept, tokens protect the executor, statistics fall short by no more than the threads bound to stop, an observer hears of each thread exactly once, `join` drains the queue of a pool that was not resized | 1 or 2 threads, 3 thread names, 2 producers, 2 tasks, 2 resizes, an observer |
| `baton` | the assertions of the waiting side, memory released by the post, no lost wake-up, a posted wait returns | 2 posters, 3 lifetimes |
| `keepalive` | the owner leaves only when all tokens are gone, and does leave; a weak reference lives as long as its tokens | 2 threads with 2 tokens each, 2 lifetimes |
| `mpmc` | the queue is a FIFO queue, ready calls never wait, refusals are justified, `size` returns a size the queue had, strides use all slots | 2 writers, 2 readers, 3 slots with stride 2, 4 or more tickets on each side, turns that wrap; strides for capacities 1 to 100 |
| `mpmc_dynamic` | the same while the queue grows; a call is never sent to a wrong or a half-replaced array; an admitted read returns | 2 writers, 1 reader, 1 to 3 slots in up to 3 arrays, 1 failed allocation |
| `task_queues` | a token leads to an item, no inversion of priorities, both mappings of priorities agree, every item is taken | 3 kinds of queue, 2 priorities, 2 producers, 2 consumers, inner queues of 1 slot with 2 items; mappings for 1 to 127 priorities |
| `queue_observers` | collected threads do not exit, leaving threads do, a task is seen by one observer, every observer is deleted once | 2 producers, 2 workers, 2 collectors, 2 priorities in a queue of 1 or of 3 |

Two workers and two producers (`pool_resize`) give each race of two threads with a
third party; two resizes give a poison pill that outlives its own resize.  In
`pool_dynamic` the third task finds a thread that has timed out and awaits its join;
one producer is enough there, since the threads it starts race with it.  Where threads could
become too many (`pool_resize`) there is one thread name more than the pool may
use, so that a thread too many would be seen.  Three lifetimes let a wake-up arrive
in the next lifetime and again in the one after it.  More tickets than slots bring
every slot to a second round, and `mpmc` starts two tickets before the turns wrap.
A dynamic queue of 1 to 3 slots with multiplier 2 grows twice, the second time
limited by the capacity, so that a lagging ticket may belong to either of two closed
arrays.  There, ways of obtaining a ticket are spread over the threads: one writer
blocks, the other uses `write` and `tryWriteUntil` (whose first step is the promised
ticket of `writeIfNotFull`), the reader uses `blockingRead` and `read`; promised reads
are left to `mpmc`.  A full inner queue, an empty one and a consumer that overtakes
another need no more than one slot and two items.  The queues' runs
allow deadlock because a blocking read of an empty queue waits for ever, and
`queue_observers` because the work ends.

### Runs that end in a counterexample

| Run | What the code does |
|---|---|
| `stop_hangs` | `setNumThreads` joins a thread that timed out instead of the one it told to stop; `threadsToJoin_` keeps asking for the former, and `stop` waits for one thread more than there are |
| `join_drops_on_timeout` | a worker that timed out as `join` takes over stops before it looks at the queue |
| `stranded_task` | `add` has seen 1 thread of 1 (and a minimum of 1) before `setNumThreads(0)`, `setNumThreads(1)` has seen no pending task before `add` queues it: the task is left without a thread |
| `add_on_destroyed_pool` | `add` posts the semaphore after its task may have let the pool be destroyed, if it took no token of its own |

`JoinDrains` is violated after a shrink too, without any timeout: a thread that the shrink
stopped after a task leaves its poison pill in the queue, and once `join` has raised
`threadsToStop_` the pill stops another worker ahead of the tasks queued behind it.  (Set
`Workers` to two, `NumThreads` and `MinThreads` to 2, `Sizes` to `{1}`, `MaxResizes` to 1,
`Tasks` to two and `Timeouts` to `FALSE` in `join_drops_on_timeout.cfg`.)  These two cases
are why `JoinDrainsFresh` asks for a pool without timeouts that was not resized.  Whether
or not tasks are left behind, a left-over pill never stops a thread too many (`TypeOK`).
`JoinLedger` holds along the trace of `stop_hangs`: the joins balance, but one of them was
paid for another.

Met on the way and not part of a run: docs/Overview.md:118 says that `stop` finishes
all outstanding tasks, while ThreadPoolExecutor.h:103 calls it best effort, as it is;
the comment at CPUThreadPoolExecutor.h:111 names the pair's first member the minimum,
the code uses it as the maximum; `getPoolStats` subtracts idle threads from
`activeThreads_`, which wraps if it is called while threads told to stop are still in
`threadList_` (`StatsOffByStopping` says by how much); a thread that stops
between two tasks (CPUThreadPoolExecutor.cpp:382-388) is not reported to observers by
`threadStopped`, although the comment at line 381 says so; the constructor of
`PriorityLifoSemMPMCQueue` counts in an `int8_t` (line 39) and never ends for more than
127 priorities, where line 49 speaks of 255 (the pool passes an `int8_t`); its
`sizeGuess` adds sizes that may be negative as unsigned numbers; `try_wait_for` may return false although `post`
has stored its delivery.

## 4. Fairness

Weak fairness for every thread that is inside the pool's, the baton's or the
queue's code: the scheduler runs it.  Strong fairness for waiting on
`threadListLock_`, since `SharedMutex` lets a waiting writer in if it is free again
and again.  Nothing obliges a user to begin a call, a timeout to fire, a token to
be released or the kernel to wake anyone spuriously.  A task is supposed to end.

In the dynamic queue a reader of the sequence lock starts over whenever the lock was
taken, so that it makes progress only if expansions end: there are finitely many, and
`MaxFailures` bounds the allocations that fail.  In `task_queues` consumers come back
for the next item, as the loop of a worker does, and no item has to be added.  In
`queue_observers` a collector lets its ids go in the end; `LockExit` is strongly fair,
for a `SharedMutex` keeps new readers out while a writer waits but is not fair between
writers.

## 5. Proofs

Every invariant and every action property of the passing runs is also a theorem, for
all values of the constants that satisfy the named assumptions, and so are the
refinement of the baton by the keep-alive count and of the FIFO queue by the fixed
`MPMCQueue`.  Each proof goes by one inductive invariant per module, whose parts are
preserved one after the other; a lemma first reduces the actions to the few things a
step can do where many actions disturb an invariant in the same way (`StepKinds`,
`Effects`).  The invariants were given to TLC on the runs' instances before they were
proved.

### The pool

`CPUThreadPoolExecutorProofs` assumes only that the sets of workers, clients and
tasks are finite, that names differ and that the sizes are natural numbers.

* `TypeCorrect`: the counts of threads, joins and semaphore tokens never go below
  zero.  The steps that subtract are guarded; `TypeInv` adds what the guards rely on:
  a worker at `run` and a producer about to queue hold a task, and a poison pill about
  to be posted is still counted.
* `JoinsBalance`: joins promised plus `threadsToJoin_` equal threads stopped plus
  `threadsToStop_`.  `LedgerInv` adds that a client owes joins only from the poison
  pills to the end of `joinStoppedThreads`, so that no promise is overwritten.
  The sum over clients is the size of the set `Claims`, so that it can be
  reasoned about with the cardinality of finite sets.
* `ThreadsAccounted`: `threadList_` is the active threads and those bound to stop.
  `AccountInv` says so together with the bound by `maxThreads_`; it needs `LockInv` (who
  holds the lock at which control point, and that the list is the set of workers
  that exist) to tell which count the holder is about to store.
* `MaximumKept`: from the same invariant, with the second check behind the lock.
* `StatsSound`: the active count of `getPoolStats` falls short by at most `threadsToStop_`
  and the idle count does not wrap, from `AccountInv`: `threadList_` has `activeThreads_` +
  `threadsToStop_` members, and `activeThreads_` is at most `maxThreads_`.

`ThreadPoolShutdownProofs` goes on from these invariants to what the pool owes its
tasks and its owner.  `PoolInv` joins them with `ControlInv` (which control points
belong to which call), `TaskInv` (where each task is: at a producer, in the queue or at
a worker, and in one place only) and `CountInv` (the keep-alive count is the size
of the set of those who carry a token).

* `TokensHaveItems`: tokens of the semaphore, tokens taken but not yet used and posts
  to come are as many as the items in the queue.
* `OwnerWaitsForTokens`: past `joinKeepAlive` the count is 0, hence by `CountInv`
  nobody carries a token.  `RunsOnce` follows from `TaskInv`.
* `NothingLeftBehind`: the CHECKs of `stop`, `join` and the destructor.  `ClosedInv`:
  once the owner has taken over, no thread starts or retires; with the ledger, the
  joins it is owed then are all the threads there are.
* `ObserversTold` (exactly once of each thread in `threadList_`) and `ObserversMissNone`: the second, which is `ObserversSeeAll`, is
  stated for a pool without idle timeouts, as the run has it; a thread that times out
  leaves fewer than `maxThreads_`, as it should.
* `JoinRunsWhatItFound`: `join` drains the queue of a pool that was never resized and
  has no timeouts (the conditions of `JoinDrainsFresh`), if it was made with at least one
  thread: with none, nobody runs the tasks and nobody is to be joined.  `BeforeInv`:
  until `join` takes over there is no poison pill and no thread bound to stop, and if
  there is no thread, whoever adds a task will start one.  `DrainsInv`: afterwards the
  tasks `join` found lie ahead of every pill, and while one is left no thread has stopped.

### The baton and the keep-alive count

* `BatonProofs` (any posters, any number of lifetimes): `WaiterSound`, `PosterSound`,
  `MemorySafe`, `WakeupKept`.  The invariant says which states each control point of
  the poster and the waiter allows, and that the single post of a lifetime
  belongs to the present one.
* `DefaultKeepAliveExecutorProofs` (a finite set of threads, not empty): `BatonUsedWell`
  maps each step to one of the baton or a stutter, so that the theorems of
  `BatonProofs` hold of the embedded baton and are used for the rest: the owner's wait
  returns only if the count was 0 (`JoinWaitsForAll`, `CountStaysZero`), and
  the count of a weak reference is the number of its holders (`WeakRefsKept`).

### The queues

* `MPMCQueueProofs`.  `StrideSound` is about every capacity, of which the run's
  `StrideSpreads` looks at 1 to 100: a small prime that does not
  divide it is coprime to it (by the least-number principle, from the library's
  well-founded induction).  The invariant for the rest, `QueueInv`, says that
  there are rounds `R`, one number for each slot, of which the sequencer is the
  value modulo `TurnSpan`, such that the turns still to come at a slot are those of the
  tickets that are not drawn yet or that some thread holds.  From it, `SlotsExclusive`,
  `ReadyCallsGoOn`, `PromisesKept`, `RefusalsJustified`, `SizeIsASnapshot`, and with the
  history `QueueIsFifo`.  Assumed: threads are few enough that a turn cannot be mistaken
  for one a full span away (`TurnsAssumption`: `2 * Cardinality(Writers) <= TurnSpan`,
  and so for readers; the span is 2^26 in the code), and one scenario has the largest
  bound on tickets.
* `DynamicMPMCQueueProofs`: `HomesStay` and `DynamicPromisesKept`.  `chain` is the closed
  arrays and the current one.  `HomeInv` says that a call past the sequence lock
  knows the last array of the chain that does not start above its ticket; an
  expansion keeps it because its offset is above all such tickets (`Offsets`: both
  counters are read behind the lock, in either order, and nobody passes the lock
  meanwhile), and a call that validates had read an unbroken shape (`Snapshots`;
  the state word never returns to an earlier value but when an allocation fails,
  which changes nothing).  Assumed (`ClosedAssumption`): a capacity below 2^31, as the five
  bits for the number of closed arrays need; `CapInv` has the doubling that makes them
  enough.
* `PriorityTaskQueuesProofs` (any threads, priorities and inner capacities):
  `PrioritiesSound`, `ServedInOrder`, and `EveryTokenFinds`, whose `TokenInv` says that no
  more consumers can come to scan the inner queues from the `k`-th down than there are
  items in them, for every `k`.
* `QueueObserversProofs` (any producers, workers and collectors): `CollectedStayAlive`,
  `ObserversAgree`, `ObserversDeleted`.

### Only model-checked

Liveness (`EveryTaskRuns`, `ShutdownReturns`, `PostedWaitReturns`, `JoinReturns`,
`AdmittedReadReturns`, `EveryItemTaken`, `LeavingExits`): it rests on fairness, which is
out of the prover's reach.  The refinement of `FifoQueue` by the dynamic queue.  The
runs that end in a counterexample.

## 6. Not modelled

* Task statistics, task expiration times and the registry of executors: they do not
  change which threads run or stop.
* A bounded queue inside the pool, where `stopThreads` may throw at a full queue after
  it has raised `threadsToStop_`: the queues and the pool are modelled apart, and
  together they are too large for TLC with bounds at which this happens.
* `ExecutorBlockingGuard`: a thread-local stack that one thread pushes and pops.
* Moving and destroying a `MPMCQueue`, which its users may not do while it is in use;
  `enqueueWithTicket` of the dynamic queue, which nothing calls.
* `ticket * stride` beyond 2^64, which takes more than 2^59 tickets.
* Weaker memory orders: steps are sequentially consistent; the pool pairs an
  asymmetric fence in `add` with one in `tryTimeoutThread`, the place where it matters.
* The throttled semaphore and the spin-only baton, which are variants of what is
  modelled; thread factories, which create a named thread; `SequencedExecutor`, an
  empty marker class.

## 7. Plan

1. Done: the models; the theorems of section 5.
2. To do: `IsFifo` of `DynamicMPMCQueue`, with the rounds of `MPMCQueueProofs` for each
   array of the chain.
