\* Children of PID 1 on three CPUs, children and grandchildren on one.
SPECIFICATION FairSpec
CONSTANTS
  Tasks = {t1, t2, t3, t4}
  init_task = t1
  Machines <- SafeMachines
  NULL = NULL
  ANY = ANY
INVARIANTS
  ExitsReported
  NoDeadlock
PROPERTY
  KernelReturns
