\* call_once with a callable that returns or throws.
SPECIFICATION FairSpec
CONSTANTS
  Threads = {t1, t2, t3, t4}
  MayThrow = TRUE
INVARIANTS
  InvokedAtMostOnce
  ReturnAfterFinish
PROPERTY CallsReturn
