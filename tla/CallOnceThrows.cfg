\* The comment on call_once against a callable that throws.
SPECIFICATION FairSpec
CONSTANTS
  Threads = {t1, t2, t3}
  MayThrow = TRUE
PROPERTY ThrowDoesNotCount
