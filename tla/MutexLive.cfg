\* Timeouts race wake-ups; every call returns.
SPECIFICATION FairSpec
CONSTANTS
  t1 = t1
  t2 = t2
  t3 = t3
  t4 = t4
  c1 = c1
  c2 = c2
  Null = Null
  Threads = {t1, t2, t3}
  Conds = {c1}
  Programs <- LivePrograms
  Priority <- FlatPriority
PROPERTIES
  Termination
