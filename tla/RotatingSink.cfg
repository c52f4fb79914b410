\* The comment on rotate_ against a disk that never fails.
SPECIFICATION Spec
CONSTANTS
  max_files_ = 2
  max_size_ = 2
  Sizes = {1, 2}
  Absent = Absent
  MaxMsgs = 6
  MaxFaults = 0
  MaxCrashes = 0
INVARIANT RotationDropsNothing
