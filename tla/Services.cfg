\* The registry, the per-thread semaphore, the clients of mutex and a spin
\* lock with a static constructor, one of them in each behaviour: two threads
\* that use a registry with one logger, which is asynchronous; a thread that
\* ends and starts again with the same identity, and two that wake it; three
\* users of a mutex client; and two of a spin lock.
SPECIFICATION Spec
CONSTANTS
  None = None
  Unused = Unused
  RegistryThreads = {t1, t2}
  Main = Main
  Names = {a}
  Async = {a}
  QueueSize = 1
  MaxCalls = 4
  Sleepers = {t1}
  Posters = {p1, p2}
  Modes = {"futex", "sem", "condvar"}
  MaxBlocks = 3
  MaxTicks = 1
  Users = {t1, t2, t3}
  Leader = t1
  Kinds = {"barrier", "blocking_counter", "notification"}
  MaxTimeouts = 1
  Lockers = {t1, t2}
  Initializer = t1
  NoThread = NoThread
  Rounds = 2
INVARIANTS
  FlusherIsOwned
  NoSleepPastWakeup
  NoUseAfterDelete
PROPERTIES
  CallsReturn
  CoopIsSticky
  Termination
