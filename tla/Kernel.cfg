\* One CPU with four tasks, two CPUs with timers, three that start, 14 page
\* frames, or eight pages in three levels of tables.
SPECIFICATION SpecKernel
\* smp_init() stops the kernel when it has no memory for the boot root.
CHECK_DEADLOCK FALSE
CONSTANTS
  k1 = k1
  k2 = k2
  p1 = p1
  v1 = v1
  Cpus = {c1}
  boot_cpu = c1
  Tasks = {t1, t2, t3, t4}
  init_task = t1
  TASK_NO_CPU = TASK_NO_CPU
  NULL = NULL
  ANY = ANY
  Calls = {"yield", "fork", "wait", "exit"}
  Forkers = {t1, t2}
SYMMETRY KernelSymmetry
INVARIANTS
  TreeKept
  TimersKept
  RemoteCallsRun
  
  NothingStale
  
PROPERTIES
  ReapTellsParent
  
  KernelSlotsFixed
