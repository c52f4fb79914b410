\* The contract of TryLockInternal while the static constructor runs.
SPECIFICATION Spec
CONSTANTS
  Threads = {t1, t2, t3}
  NoThread = NoThread
  Initializer = t1
  Races = TRUE
  Rounds = 1
INVARIANT ResultMeansLocked
