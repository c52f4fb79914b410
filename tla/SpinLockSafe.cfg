\* Three threads, three calls each; the first call of one is the static
\* constructor, which is over before the others begin.
SPECIFICATION Spec
CONSTANTS
  Threads = {t1, t2, t3}
  NoThread = NoThread
  Initializer = t1
  Races = FALSE
  Rounds = 3
INVARIANTS
  MutualExclusion
  NoLostSleeper
  ReportsOnlyContended
