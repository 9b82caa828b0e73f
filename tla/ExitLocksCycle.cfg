\* Two CPUs; a grandchild of PID 1 exits.
SPECIFICATION Spec
CONSTANTS
  Tasks = {t1, t2, t3}
  init_task = t1
  Machines <- TreeMachines
  NULL = NULL
  ANY = ANY
INVARIANT NoDeadlock
