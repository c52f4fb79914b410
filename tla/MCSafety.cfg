\* The sinks' files, the wait cycles of SpinLock, the lock graph, the
\* allocator, the containers, the sampler of hash tables and the clock, one
\* of them in each behaviour.
SPECIFICATION SafetySpec
CONSTANTS
  max_files_ = 2
  max_size_ = 2
  Sizes = {1, 3}
  RotatingMsgs = 5
  RotatingFaults = 2
  MaxCrashes = 1
  Day = 2
  Rotations = {0, 1}
  MaxTime = 5
  DailyMsgs = 3
  DailyFaults = 1
  Absent = Absent
  WordSize = 64
  MaxDelta = 2000
  N = 4
  MaxVersion = 2
  MaxRemovals = 2
  NodeAddresses = {0, 1, 2, 3}
  SkipHead = 10
  SkipNull = 11
  MaxLevel = 3
  Allocators = {p1, p2}
  NoBlock = NoBlock
  Requests = {2, 5}
  pagesize = 4
  Chunk = 4
  MaxRandom = 2
  MaxAddr = 12
  Samplers = {p1, p2, p3}
  Iterators = {i1}
  max_samples = 1
  SamplerCalls = 5
  ClockUsers = {p1, p2}
  ClockCalls = 4
  None = None
  Unused = Unused
INVARIANTS
  WriteFindsOpenFile
  RetainedIsSuffix
  OnePeriodOneFile
  RoundTrip
  RanksAreTopological
  RefusesExactlyCycles
  LevelsLinkTheirMembers
  BlocksPartitionMemory
  FirstFitMissesNothing
  LookupsAreRight
  TreeVerifies
  EraseReturnsNext
  SamplesAreReused
  FastPathUsesOneSample
