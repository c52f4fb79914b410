# TLA+ verification of abel

abel is a C++ base library: a fork of Abseil with its own logging (`abel/log`).
Most of its 115 000 lines are sequential templates and text handling. The logic
that is hard to get right is in its synchronization primitives, in its logging with
threads and files, and in a few data structures that repair themselves over a
long sequence of calls; that is what these modules model. Paths below are
relative to `abel/` in the repository.

## 1. Inventory

| Component | State | Operations | What is hard | Correct when |
|---|---|---|---|---|
| `call_once` (`functional/call_once.h`) | one control word | `call_once`, `LowLevelCallOnce` | first exchange races waiters; last load and store are not one access; a callable that throws | run at most once, nobody returns early, nobody waits for ever |
| `SpinLock` (`threading/internal/spinlock.*`, `spinlock_wait.cc`, `spinlock_linux.inc`) | lock word: held, cooperative, wait time | `lock`, `try_lock`, `unlock`, static constructor | values read before an exchange are stale; the wait time shares the word; timed futex | mutual exclusion, no forgotten sleeper, honest contention reports |
| `mutex` (`synchronization/mutex.cc`, `.h`) | mutex word, circular waiter queue with skip chains in the waiters' `PerThreadSynch`, per-thread semaphore | `lock`, `ReaderLock`, `LockWhen…`, `Await…`, `try_lock`, `unlock` | the queue is changed under a spin bit while the lock changes hands; an unlocker walks it without the spin bit; timeouts remove waiters from the middle; priorities insert into it | word, queue and holders agree; no wake-up is lost; it is a reader-writer lock with conditional critical sections |
| `cond_var` (`synchronization/mutex.cc`) | list of waiters | `wait`, `WaitWithTimeout`, `signal`, `signal_all` | signal moves a waiter to the mutex queue (`Fer`); timeout races signal | a waiter is on at most one queue and is woken |
| semaphore and `Waiter` (`synchronization/internal`) | a count per thread, in a futex, under a condition variable or in a POSIX semaphore | post, wait, tick | wake-up between increment and sleep; idle ticks; posts that come late | nobody sleeps past a wake-up |
| thread identity | free list, thread-local pointer | create, reclaim | reuse while a post is on its way | a late post does no harm |
| deadlock graph (`graphcycles.cc`), `SynchEvent` | ranked graph, event table | insert/remove edge, events | incremental order maintenance | ranks are a topological order; an edge is refused exactly when it closes a cycle |
| `barrier`, `blocking_counter`, `notification` | counters under a mutex | `block`, `decrement_count`, `wait`, `Notify` | who may delete the object | nobody uses it after that |
| async logging (`log/async.h`, `details/thread_pool.h`, `mpmc_blocking_q.h`, `circular_q.h`, `async_logger_impl.h`) | circular queue, pool with workers, `shared_ptr` counts | log, flush, worker loop, pool destruction, factory | two overflow policies, notify after unlock, last owner runs the destructor | bounded FIFO, nothing lost silently, everything drained and joined |
| log registry and periodic flusher (`details/registry.h`, `periodic_worker.h`) | logger map, global pool, flusher thread | create, drop, flush_all, shutdown | callbacks under two mutexes; destruction order | every call returns, the flusher is joined before what it uses goes |
| file sinks (`sinks/rotating_file_sink.h`, `daily_file_sink.h`) | open file, size or next time | log, rotate | a failure or a kill in the middle of a rotation; `fflush` and `fclose` that fail unseen; late messages | only the oldest messages and those that could not be flushed go; a period's messages are in one file |
| low-level allocator (`memory/internal/low_level_alloc.cc`) | free list as a skip list, blocks with headers | `Alloc`, `Free`, `DeleteArena` | splitting and joining blocks; pages are mapped with the lock released | blocks partition the memory; first fit misses nothing |
| hash table (`container/internal/raw_hash_set.h`) | control bytes, slots, `growth_left` | insert, erase, clear, rehash, reserve | tombstones, groups that wrap, rehashing in place | an element is found while it is in the table, a search ends |
| B-tree (`container/internal/btree.h`) | nodes with parents and positions | insert, hinted insert, erase, clear, copy | rebalancing over several levels, the iterator erase returns | the tree is sorted and balanced; the iterator follows its element |
| hash-table sampler (`container/internal/hashtablez_sampler.cc`) | list of all samples, graveyard of dead ones, a count | `Register`, `Unregister`, `Iterate` | a list without a lock beside one under two mutexes | a sample has one owner, a dead one is reused |
| clock (`chrono/clock.cc`) | last sample under a sequence word | `get_current_time_nanos` | readers take no lock, fields change one by one | a time comes from one sample |
| flags, durations and calendars, strings, format, random, hash, numeric, types, debugging, system, filesystem | | | sequential, platform or text code | see section 7 |

The components interact by calls and shared words: `SpinLock` uses `call_once`
for its spin count and the same futex delay; `mutex` keeps its queue in
`PerThreadSynch` and sleeps on the per-thread semaphore; `cond_var` releases and
re-takes the mutex and hands waiters over to its queue; loggers post to the pool
through a `weak_ptr`, messages hold a `shared_ptr` to their logger, and the
registry owns the pool and the flusher, whose callback comes back to the
registry. `barrier`, `blocking_counter` and `notification` are clients of
`mutex`; the allocator and the lock graph serve the mutex's debugging.

The hazards, each at its line, are in `PROJECT.json`.

## 2. Modules

| Module | Models | Notes |
|---|---|---|
| `CallOnce` | `call_once.h`, `SpinLockWait`, futex delay | one step per atomic access; the runner's load and store are separate |
| `SpinLock` | `spinlock.h`, `spinlock.cc` on Linux | word = set of bits; every load goes to a local `lv` that may be stale when it is exchanged |
| `SpinLockCycles` | `EncodeWaitCycles`, `DecodeWaitCycles` | the word's width is a constant, so that clamping and wrapping happen in a small range |
| `MutexQueue` | `Skip`, `FixSkip`, `Enqueue`, `Dequeue`, `DequeueAllWakeable`, `TryRemove`'s search | operators on a queue value; the code's `ABEL_RAW_CHECK`s are collected in `failed` |
| `Mutex` | `mutex` and `cond_var` | one action per atomic access to the word and the private work around it; see below |
| `Monitor` | nothing in the code: the abstract reader-writer lock with conditional critical sections | `Mutex` implements it |
| `MCMutex` | client programs | |
| `AsyncLog` | `circular_q`, `mpmc_blocking_queue`, `thread_pool`, `async_logger` | a critical section of `queue_mutex_` is a step, `notify_one` after it is another |
| `LogQueue` | nothing in the code: the abstract bounded FIFO | `AsyncLog` implements it |
| `AsyncFactory` | `async_factory_impl::create`, `get_tp`, `set_tp`, `register_and_init` | a pool lives while the registry or a local `tp` points to it |
| `Registry` | `registry` and `periodic_worker` | the pool's queue is a number here; `AsyncLog` models it |
| `ThreadSem` | `Waiter` in three modes, `PerThreadSem`, the free list of identities | callers are the loops of `mutex::Block` and `Wakeup`; a late post may hit the next owner of an identity |
| `SyncClients` | `barrier`, `blocking_counter`, `notification` and their deletion | the mutex is what `Mutex` is shown to be: exclusive, with conditions |
| `RotatingSink` | `rotating_file_sink` over `file_helper`, `logger::log`'s catch | every file operation may fail, with an error or, for `fflush` and `fclose`, in silence; the process may be killed between any two |
| `DailySink` | `daily_file_sink` | messages carry the time they were made at and arrive later |
| `GraphCycles` | `graphcycles.cc` | nodes with versions; the incremental reordering of ranks |
| `SkipList`, `LowLevelAlloc` | `low_level_alloc.cc` | the links of the free list; the blocks of an arena |
| `RawHashSet` | `raw_hash_set.h` | group width and load are constants, so that a small table meets every case |
| `BTree` | `btree.h`, unique keys | one step per node that the code works on |
| `Sampler` | `hashtablez_sampler.cc` | a sample is a number; a step per access outside a mutex, and per section inside one |
| `ClockSample` | `chrono/clock.cc`: `get_current_time_nanos` | a field holds the number of the sample that stored it |
| `MCAsyncLog`, `MCAsyncFactory` | constants for TLC | |
| `Services` | `Registry`, `ThreadSem`, `SyncClients` and a `SpinLock` with its static constructor, side by side | `which` is chosen at the start; only that component makes steps; all constants are parameters |
| `Components` | the sinks, `SpinLockCycles`, `GraphCycles`, the allocator's two, `Sampler`, `ClockSample`, side by side | the same; `"other"` is for the module that extends it |
| `MCSafety` | `Components` and beside it `RawHashSet` and `BTree` | `container` chooses among these |
| `CallOnceProof`, `SpinLockProof`, `MutexProof`, `AsyncLogProof`, `ServicesProof`, `ComponentsProof` | theorems about the module of that name | section 4 |
| `QueueProof` | lemmas about the operators of `MutexQueue` | what each does to a queue; section 4 |
| `Iteration` | nothing in the code: induction over the steps of a loop, linked lists | section 4 |

**Mutex in detail.** `mu` is the set of the word's low bits, `readers` the count
that the code keeps in the word or, once there is a waiter, in the last waiter.
`queue` is the waiter queue, `linked` and `queued` are the threads whose `next` is
set and whose `state` is `kQueued`, `sem` the per-thread semaphore (external to
this module: a counter). A thread's `pc` says where in the code it is; `how`,
`cond`, `timed` are its `synch_wait_params`. `LockSlowLoop` is `LockAcquire`,
`LockJoin`, `LockOnlyWaiter` and the pair `LockSpin`/`LockEnqueue`, which is two
steps because the holder may release the lock in between. `Block` is
`BlockCheck`, `SemWait`, `SemTimeout`, `TryRemove`, `TimeoutSatisfied`.
`UnlockSlow` is the family `Unlock…`; `UnlockStartWalk` and `UnlockWalk` search
the queue one waiter at a time without the spin bit, so others can enqueue during
the search. `Wakeup`'s two stores and its semaphore post are three steps. `Fer`
is `CvWakeup`, `FerOnlyWaiter`, `FerSpin`, `FerEnqueue`. Conditions are names in the set
`truth`, the protected data, that a writer changes before it unlocks. `result` says
whose last `LockWhen` or `Await` call returned true (`Answer`): after a timeout the
condition is dropped, and what is returned is what it is under the lock. `Monitor` asks
the same of its calls in `answered`.

**Registry in detail.** A call that only needs the map mutex is one step.
`flush_all` is `LockMap`, `FlushOne` for each logger, `UnlockMap`, for a caller
and for the flusher alike; `FlushOne` waits when the logger is asynchronous and
the queue is full. `Reset` is `periodic_flusher_.reset`: the pointer changes
first, and `Destroy` (stop under the worker's mutex, notify, join) comes after.

**Files in detail.** In `RotatingSink` file *i* is the *i*-th name and holds a
sequence of messages; `buf` is what the `FILE` has not written out, so a kill
loses it. `sink_it_`, `RemoveTarget`, `RenameSource`, `Reopen` and `Write` are
the steps of one `log`, each with its failure. `file_helper` ignores the results of
`fflush` and `fclose` (`file_helper.h:94-103`): in `close` and `flush_` any part of the
buffer reaches the file, and a failure loses the others without a word. `dropped`
remembers those, and those a kill took. A message is written whole or not at all: one
that a failure cut off counts as not written. In `DailySink` a file is named by
its day and `late` remembers whether a call straddled a rotation time or midnight;
what becomes of a message that does is not claimed, as nothing in the repository says
which file it belongs to.

**Data structures in detail.** `GraphCycles`, `SkipList` and `RawHashSet` make
one step per call, as nothing interleaves with it; `LowLevelAlloc` has a step of
its own where the allocator lets go of the lock to map pages. `BTree` keeps the
running call in `call` and makes one step for each node it splits, merges or
rebalances, so that each branch of the code is an action.

What is abstracted: addresses, cycle counts, memory orders (every access is
sequentially consistent), the spinning delays, tracing and profiling; log
message text, levels and formatting; the values of hash functions, allocators
and element types in the containers. `pthread_getschedparam` is a choice between
the stored priority and the calling thread's.

## 3. Runs

| Run | Instance | Shows |
|---|---|---|
| `call_once` | 4 callers, fn may throw | `InvokedAtMostOnce`, `ReturnAfterFinish`, `CallsReturn` |
| `call_once_throws` (violation) | 3 callers | after a throw later callers hang, although the comment on `call_once` promises that a call that throws does not count |
| `spinlock_safe` | 3 threads, 3 calls each; the static constructor first | `MutualExclusion`, `NoLostSleeper`, `ReportsOnlyContended` |
| `spinlock_static_race` (violation) | 3 threads | a free lock is taken for an owned one |
| `mutex_safe` | 3 threads, one of a higher priority; all programs of `SafePrograms` | the word, queue, wake-up and skip-chain invariants, that the designated waker exists (a part of `NoLostWakeup`), and `ImplementsMonitor` with what timed calls return |
| `mutex_live` | 3 threads, timeouts on mutex and cond_var | `Termination` |
| `mutex_may_skip` (violation) | 4 threads | the second half of the comment on `skip` does not hold |
| `async_log` | 2 loggers with 2 calls, either policy; 1 or 2 workers; queue of 2; shutdown at any time | `ImplementsLogQueue`, `NoSilentLoss`, `PoolOutlivesUsers`, `DrainedAtDestruction`, `InOrder`, `Termination` |
| `async_factory` (violation) | 3 threads, 2 names | loggers with a destroyed pool |
| `rotating_sink` (violation) | 3 files, no faults | a message is dropped by a rotation in which nothing failed |
| `services` | registry: 2 threads, 4 calls, an asynchronous logger, a queue of 1 | `FlusherIsOwned`, `CallsReturn` |
| | semaphore: 1 thread that may end and come back, 2 wakers, 3 waits, each `Waiter` | `NoSleepPastWakeup` |
| | clients: 3 threads, each of the three objects | `NoUseAfterDelete` |
| | a spin lock of 2 threads, one of which runs the static constructor | `CoopIsSticky`, `Termination` |
| `safety` | rotating: 3 files, 5 messages, 2 faults, 1 kill | `WriteFindsOpenFile`, `RetainedIsSuffix` |
| | daily: 3 days of 2 ticks, 3 messages, 1 fault | `OnePeriodOneFile` |
| | a lock word of 64 values, differences up to 2000 both ways | `RoundTrip` |
| | lock graph: 4 nodes, 2 removals of a node, which may be reused until its version runs out, or of an edge | `RanksAreTopological`, `RefusesExactlyCycles` |
| | skip list: 4 addresses, 3 levels | `LevelsLinkTheirMembers` |
| | arena: 3 pages of 4 units, 2 threads, small and large requests | `BlocksPartitionMemory`, `FirstFitMissesNothing` |
| | table: groups of 4, capacities to 7, colliding hashes | `LookupsAreRight` |
| | B-tree of nodes of 3: six keys with two erasures or copies, eleven with one | `TreeVerifies`, `EraseReturnsNext` |
| | sampler: 3 threads, two samples at once, a reader of them, 5 calls | `SamplesAreReused` |
| | clock: 2 threads, 4 calls | `FastPathUsesOneSample` |

`services` and `safety` each check components that do not meet. Every
behaviour belongs to one of them, and a property speaks of its own component
only, so the run is the union of the components' runs. `FlusherIsOwned` is the
conjunction of `OnlyCurrentFlusherRuns` and `CallbackFindsRegistry` of
`Registry`, and `LookupsAreRight` that of `ElementsAreFound` and `SearchesEnd` of
`RawHashSet`.

**Bounds.** Three threads are the smallest number in which one waits, one
unlocks and one interferes. A skip chain of three is the shortest that an inner
waiter can leave; the waiter that times out then makes the condition true for
the others (`ChainPrograms`). `Rounds` bounds a thread's calls on a `SpinLock`: the second call meets
the marks the first one left. `Races` says whether a `SpinLock` is used before
its static constructor is over, which C++ leaves open across source files. Client programs of the mutex are finite sequences
of calls; `SafePrograms` has both modes, waits with and without conditions and
timeouts, and both ways of signalling. The full product of these (43 sets of
programs, 1.2 million states) and a chain with a fourth thread (2.4 million) were
checked once with the same invariants and also hold. The log queue of two
wraps round and is full and empty with four messages and two terminations.
Four registry calls are enough for a flusher to be replaced and shut down while
another thread flushes into a full queue. Three waits let an identity go
through the free list with a post still on its way. Two faults hit a rotation
and the next attempt at it. A word of 64 values has a clamp, a wrap and both
reserved values within the range of differences; the encoding scales with the
word. A graph of four nodes has both searches of the reordering non-trivial. A
table of seven slots and groups of four wraps, fills with tombstones and
rehashes in place; only the portable group, with loads as wide as the group, is run. A node
of three values is the smallest that the code splits and merges; eleven keys make three levels,
where a merge reaches the root through an internal node. In so small a node one that is short
is empty, so the rebalancing that moves several values at once to a node that still has some is not reached. With three threads and a limit of two
samples one is refused while one is buried; five calls bury a sample that others
take again while a reader walks the list. Four calls of the clock are enough for
a reader to meet three updates, of which the first sets no slope.

**Fairness.** Weak fairness of each thread's steps: the kernel schedules every
runnable thread and critical sections are finite. For `call_once` and `SpinLock`
this includes the end of a futex delay, which always has a timeout in
`spinlock_linux.inc`. For the mutex a timed wait's timeout is fair for the same
reason, an untimed one has none. `AsyncLog` assumes nothing of the ten-second
timeout of `dequeue_for` nor of spurious wake-ups, so what it shows rests on the
notifications alone. `Registry` assumes strong fairness of each thread: a thread
that waits for a mutex gets it when it is free again and again, and the flusher
frees both of its mutexes for a whole interval between callbacks; a pool worker
drains the queue (weak fairness). `ThreadSem` and `SyncClients` claim safety only. `CallsReturn` is stated for runs in which nobody throws.

**Deadlock** is checked in every run; a finished system stutters explicitly.

## 4. Proofs

Every theorem is about the specification that a run checks, for every value of
its constants that satisfies the module's assumption. `Services` and `Components` are
compositions of independent components with all their constants free, so a theorem about one
component of them is the theorem about that component: the proof takes the step of the
composition, which is a step of the component or leaves its variables alone,
and goes on with the component's own actions.

| Theorem | Says | The inductive invariant, and why the property alone is not enough |
|---|---|---|
| `CallOnceProof!AtMostOnce`, `NoEarlyReturn` | `InvokedAtMostOnce`, `ReturnAfterFinish` | that the word is still `kOnceInit` says nothing about who is inside: an initial word means nobody has started, a runner or thrower has started, `kOnceDone` means the callable is over and there is no runner |
| `SpinLockProof!SpinLockMutualExclusion`, `NoSleeperIsForgotten`, `OnlyWaitsAreReported` | `MutualExclusion`, `NoLostSleeper`, `ReportsOnlyContended` | a free word is zero but for the cooperative bit (`FreeIsZero`) and a stale `lock_value` agrees with it about that bit (`LocalsFresh`), so an exchange that fails on a value seen free has met a held word; `Waits` says what a thread's `cycles` and `lv` are where it is, and whose mark a word may carry |
| `MutexProof!WordIsTrue` | `WordMatchesHolders` | where a thread is in the code tells which call of its program it is in and where it returns to (`CallAtHand`), which mode it holds, and that an unlocker still holds while it walks the queue |
| `MutexProof!MutexImplementsMonitor` | `ImplementsMonitor` | the same, and that a waiter keeps the condition it evaluated until a timeout drops it (`KeepsCondition`), so that what a call returns is what its condition is; then each action is a `Monitor` step or a stutter, one lemma per family of actions |
| `MutexProof!NoCheckFails`, `SkipsAreRight`, `WordKnowsTheQueue`, `WaitersAreAsleep`, `NoWakeupIsLost` | `NoFatal`, `SkipOK`, `WordMatchesQueue`, `QueuedThreadsSleep`, `NoLostWakeup` | one invariant for all five, `WInv`, described below: each needs the others |
| `MutexProof!DesignatedWakerIsThere` | `DesignatedWakerExists`, the second half of `NoLostWakeup` | with `WInv`: `kMuDesig` is set only by who takes a waiter off to wake it, and a thread on its way stays so, with `kMuHasBlocked` to clear the bit, until it has the lock or sleeps again |
| `AsyncLogProof!NoUseAfterDestruction` | `PoolOutlivesUsers` | the life of the pool in three phases: who holds a reference, who is the one thread that destroys, what the workers may still do (`Alive`, `Dying`, `Gone`) |
| `AsyncLogProof!QueueIsFirstInFirstOut` | `ImplementsLogQueue` | head and tail are slots, and the contents are the slots from one to the other, modulo `max_items_ + 1` |
| `AsyncLogProof!NothingIsLostInSilence`, `DestructorDrains`, `OneWorkerKeepsOrder` | `NoSilentLoss`, `DrainedAtDestruction`, `InOrder` | every message is in exactly one place; the terminations behind them are as many as there are workers left; what is in the queue, in hand and at the sink is in the order of the calls |
| `ServicesProof!NoFlusherOutlivesItsOwner` | `FlusherIsOwned` | who destroys a flusher has `flusher_mutex_` until after the join, and a running thread has an owner or somebody who joins it |
| `ServicesProof!WhoDeletesIsLast` | `NoUseAfterDelete` | the counters equal the number of threads still before the corresponding step, by cardinality; who was told to delete had the mutex last |
| `ServicesProof!NobodySleepsPastWakeup` | `NoSleepPastWakeup` | wakeups in the count and those on their way are counted together, over the owners an identity has had |
| `ServicesProof!CooperativeBitStays` | `CoopIsSticky` | until the bit is set the lock is sound; from then on every loaded word has it |
| `ComponentsProof!NoWriteIntoClosedFile` | `WriteFindsOpenFile` | the size stays above the limit while the file is closed |
| `ComponentsProof!OnlyOldestOrUnflushedAreLost` | `RetainedIsSuffix` | the messages written, without `dropped`, are a sequence in the order of the calls (`Survives`), and there are places to cut it such that each file is what lies between two of them (`Cuts`); only what is before the last file's is gone (`Filed`); a rotation that fails halfway leaves an empty piece, and a failed `fclose` takes from the end of the youngest |
| `ComponentsProof!PeriodsAreNotSplit` | `OnePeriodOneFile` | until a call has straddled a rotation or midnight, `rotation_tp_` is the end of some period, the file that is open has all messages of that period, no file has later ones, and the file is closed only when that period is over (`Until`); the rest is arithmetic of days and periods (`DayOfTime`, `BeforeRotation`, `NextRotation`) |
| `ComponentsProof!WaitTimesRoundTrip` | `RoundTrip` | arithmetic only: the property holds for every difference of clocks and every word of five bits or more, so for the code's 32 |
| `ComponentsProof!FastPathIsConsistent` | `FastPathUsesOneSample` | the fields that a writer has still to store are the only ones that may disagree, and what a reader has read is current as long as the sequence word is what it was |
| `ComponentsProof!FreeListIsLinked` | `LevelsLinkTheirMembers` | the link of every node at every level is the least member behind it (`Links`), also at the levels a node does not have; then a walk along a level ends at the last node before the address, by the greatest node for which it would not, and the search finds it on every level, by induction from the top |
| `ComponentsProof!MemoryIsPartitioned`, `SearchMissesNothing` | `BlocksPartitionMemory`, `FirstFitMissesNothing` | each unit of mapped memory is in a free block, in an allocated one or with the thread that has just mapped it, and in one of these only (`Accounted`); free blocks are in order and do not touch (`Coalesced`), and have the levels of their size at least (`Levelled`); pages are mapped as a whole (`InWholePages`) |
| `ComponentsProof!RanksFollowEdges`, `RefusesTheCycles` | `RanksAreTopological`, `RefusesExactlyCycles` | the ranks of the nodes in use are a permutation of them, and every edge, known at both of its ends, goes up in rank; it is the ranks being right before an insertion that lets its searches be bounded by them |
| `ComponentsProof!SamplesHaveOneOwner` | `SamplesAreReused` | each of the two linked lists visits just the samples it should, once each (`Chain`): all but those still being pushed, and all that no thread keeps; the counter is the number of threads between the increment and the decrement, so with an empty graveyard fewer samples exist than the limit allows |

**The waiter queue.** `WInv` is the invariant of `Mutex` that says where the
waiters are and what an unlocker that searches the queue has found. None of its
parts is inductive without the others:

- `QueueGood`: the waiters differ, every skip pointer leads forward over waiters
  of one kind, none of which ends a chain (`Jump`), and no check has failed.
  `SkipOK` alone does not say that the chain from an inner waiter goes on, which
  `Dequeue` and `TryRemove` rely on when they take a waiter out.
- `Places`, `Asleep`: a thread is on one of the two queues or on one list of
  threads to wake, once; wherever it is, it sleeps, and is queued and linked until
  the last step of waking it. Without them a thread could join a queue twice.
- `Walks`: one thread searches at a time, and holds the lock while it does. What it
  has found is right (`Search`): nobody it has passed can run, or the first who can
  is remembered with the one before, whose skip pointer is null, so that
  it can be taken out; of the others it has passed, those that can be woken are marked,
  and those that are not will be skipped. The waiter at which the search ends must
  not skip (`may_skip` is cleared), so threads that join meanwhile leave all this true:
  they join at the end, or at the front as writers without a condition, which the
  unlocker then takes (`SearchJoined`, `WalkStep`).
- `SpinBit`: the spin bit is set for one thread, and its queue does not run empty.
- `WordMatchesQueue`, `WakerThere`, `BlockedCannotRun`: the word knows the
  queue; when the lock is free and the word or the queue says that somebody may run,
  there is a designated waker; who releases the lock to wait for a condition had found
  it false. `NoLostWakeup` needs the middle one also for what the word says only.

`QueueProof` proves, of each operator of `MutexQueue`, what it does to a good
queue: `EnqueueKeeps`, `DequeueKeeps`, `RemoveOnly` for `TryRemove`'s search,
`WakesAll` for `DequeueAllWakeable`, and `WalkStep` and `ReopenKeeps` for
`UnlockSlow`'s search. Their loops are recursive functions, so each has
an invariant of its own, taken through the rounds by `Iteration`.

**The lock graph.** `RefusesExactlyCycles` is about the searches of `InsertEdge`, which are
bounded by ranks. A search reaches all it can in as many rounds as there are nodes
(`SearchCloses`: each round that adds nothing is the last, and there are no more nodes to
add), and ranks that are a topological order keep every path to the new edge's tail below its
rank (`SearchesFind`, `RefusesCycles`). `Reorder` hands the ranks of the nodes of both searches out
again. `PlaceGrows` and `PlaceIsTaken` say that counting the nodes ahead of each one gives them
different places, and `ReorderKeeps` goes through the edges by the searches that their ends are in.

**The arena.** The proof speaks of units of memory, not of intervals: `InFree`, `Taken` and
`InPages` say where a unit is, and what an operation does is which units it moves.
`CoalesceJoins` says that joining a block with its successor moves none, and that the block
touches afterwards only what its successor touched; so `AddToFreelist`, which joins twice, leaves
no two that touch (`AddToFreelistAdds`). That an arena without allocated blocks is made of whole
pages is not kept by any step as such. It follows (`FreeInWholePages`): mapped memory comes in whole
pages, so with a unit of a page the other units of the page are free too, and a block that
began or ended within a page would touch another. `SearchMissesNothing` rests on `IntLog2Grows`: the
number of levels, computed by a loop of halvings, does not fall as the size grows.

**Assumptions.** Each is an `ASSUME` of the module that declares the constants,
evaluated in every run: threads are told apart from "none" and from the
threads with a role; sets of threads that the code counts are finite; sizes and bounds
are natural numbers; a day has ticks and a rotation time is one of them; a page has a size, what is
mapped at once is a number of pages and no request is empty, as it includes a header; programs of the mutex are sequences of its calls; a logger is no
worker. The three theorems of `SpinLockProof` have one hypothesis more,
`~Races`: a static constructor is over before the lock is used. Without it they
are false, as `spinlock_static_race` shows; `CooperativeBitStays` is what remains,
and it is proved with the race. No theorem assumes anything about timeouts, faults,
kills, priorities, conditions or the order of steps, and none uses a bound:
where a constant such as `Rounds` ends a counter, the theorem holds for each value of it.

**Form.** A proof of invariance has one step or lemma per action and below it
one per conjunct that the action touches. The rotating sink adds up the lengths of
messages and joins files in order, the waiter queue follows skip pointers in loops,
which are recursive functions, and `Sampler` follows the links of its lists. The library's induction theorems take an
operator, so `Iteration` states induction for a set of numbers and derives it
from the least counterexample (well-foundedness of `<`), and from that the
function a recursion defines and what a linked list reaches. It has the lemmas
on the least and the greatest number of a set (`Least`, `Greatest`) and those
on pushing to, popping and relinking a list (`PushChain`, `PopChain`,
`SameChain`, `ReachChain`). `ServicesProof` uses lemmas of
`SpinLockProof` through `INSTANCE`; `SameLock` says that the two instances are one.

**Only model-checked.** All liveness properties (`CallsReturn`, `Termination`) and what rests on
fairness, which this prover does not do. The containers' `LookupsAreRight`, `TreeVerifies` and
`EraseReturnsNext`: `RawHashSet` and `BTree` are written with `RECURSIVE` operators, out of the
prover's reach. The violations are TLC's by nature. Every other safety property of the passing runs
is a theorem.

## 5. Findings

1. `call_once` with a callable that throws (`functional/call_once.h:162`).
2. `SpinLock::TryLockInternal` returns a word without the held bit when its
   exchange fails because the static constructor has just made the lock
   cooperative (`threading/internal/spinlock.h:229`): the caller goes on without
   the lock.
3. `Dequeue` fills in `skip` of a waiter whose `may_skip` is stale
   (`synchronization/mutex.cc:988`), against the comments at `mutex.cc:761` and
   `thread_identity.h:54`. `SkipOK`, the property the walk needs, holds in
   all runs.
4. `async_factory_impl::create` locks with an unnamed temporary
   (`log/async.h:45`): concurrent first calls make several pools and leave
   loggers that can never log.
5. `rotate_` takes a successful `remove` for a failure
   (`log/sinks/rotating_file_sink.h:81`): `abel::filesystem::remove` returns
   `true` when it has removed the file. The rotation throws, the message is
   dropped, and the next message rotates again, now without the oldest file.
   `RetainedIsSuffix`, which speaks of messages that `fwrite` has taken, and
   `WriteFindsOpenFile` hold all the same.

## 6. Plan

1. *Done:* synchronization (`CallOnce`, `SpinLock`, `Mutex`, `Monitor`,
   `ThreadSem`, `SyncClients`, `GraphCycles`), logging (`AsyncLog`, `LogQueue`,
   `AsyncFactory`, `Registry`, `RotatingSink`, `DailySink`), the allocator,
   two containers with their sampler, and the clock's seqlock.
2. *Done:* proofs of every safety property of `CallOnce`, `SpinLock`, `AsyncLog`,
   `Services`, `Mutex` and `Components`, with the refinements of `LogQueue` and `Monitor`.
3. Open: the containers' searches and loops as recursive functions, so that
   `LookupsAreRight` and `TreeVerifies` can be proved too.

## 7. Not modelled

- `filesystem/filesystem.h` is a vendored `std::filesystem`, `format/format.h` a
  vendored `fmt`, `base/profile/*` compiler detection: third-party code and
  preprocessor tests. These three are a large share of the source's lines.
- `debugging` (demangling, symbolizing, unwinding, signal handlers) and `system`
  are parsers of binary formats and calls of the platform: no state between
  calls that a property could relate.
- `strings`, `digest`, `flags`, log formatting: pure transformations of text and
  bytes. Their data is what the models abstract from.
- `numeric` and the durations and calendars of `chrono` compute with 96 and 128
  bits, beyond TLC's integers; scaled down they would be other algorithms.
- `random`, `hash`: statistical quality is not a property of states.
- `meta`, `types`, `algorithm`, `utility`, `memory` helpers: templates without
  behaviour of their own.
- Of modelled components: the Windows waiter, `SynchEvent`, `dist_sink` and
  several sinks per logger, level filters, multi-key trees and tables,
  `inlined_vector`, `circular_buffer`, `intrusive_list`.
  `components` in `PROJECT.json` says what each row leaves out.
