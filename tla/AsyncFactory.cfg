\* Three threads create loggers; there is no global thread pool yet.
SPECIFICATION Spec
CONSTANTS
  t1 = t1
  t2 = t2
  t3 = t3
  Threads = {t1, t2, t3}
  Name <- Names
INVARIANTS
  LoggersShareLivePool
