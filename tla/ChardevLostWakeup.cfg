\* Two readers on two CPUs.
CONSTANTS
  Tasks = {t1, t2}
  Width = 2
  NULL = NULL
  CpuCounts = {2}
  Sizes = {2}
  MaxBytes = 2
  MaxCount = 1
SPECIFICATION Spec
CHECK_DEADLOCK FALSE
INVARIANT BlockedMeansEmpty
