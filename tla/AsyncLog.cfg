\* Two loggers of any policies, one or two workers, shutdown at any time.
SPECIFICATION FairSpec
CONSTANTS
  p1 = p1
  p2 = p2
  w1 = w1
  w2 = w2
  Producers = {p1, p2}
  AllWorkers = {w1, w2}
  Owner = Owner
  None = None
  Crews = {{w1}, {w1, w2}}
  MaxItems = 2
  Program <- TwoCalls
INVARIANTS
  NoSilentLoss
  PoolOutlivesUsers
  DrainedAtDestruction
  InOrder
PROPERTIES
  ImplementsLogQueue
  Termination
