\* Two CPUs, PID 1 and two children of it.
SPECIFICATION Spec
CONSTANTS
  Cpus = {c1, c2}
  boot_cpu = c1
  Tasks = {t1, t2, t3}
  init_task = t1
  TASK_NO_CPU = TASK_NO_CPU
  NULL = NULL
  ANY = ANY
  Calls = {"other", "yield", "fork", "sleep", "read", "wait", "exit"}
  Forkers = {t1}
SYMMETRY Symmetry
INVARIANTS
  TypeOK
  OneOwner
  RunningIsOwned
  ListHoldsLiveTasks
  SleepersHaveWaker
  ForkedChildAllocated
  NoBug
