\* The comment on may_skip.
SPECIFICATION Spec
CONSTANTS
  t1 = t1
  t2 = t2
  t3 = t3
  t4 = t4
  c1 = c1
  c2 = c2
  Null = Null
  Threads = {t1, t2, t3, t4}
  Conds = {c1, c2}
  Programs <- LatePrograms
  Priority <- FlatPriority
INVARIANTS
  MaySkip
