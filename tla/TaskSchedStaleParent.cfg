\* Two CPUs, a grandchild of PID 1 exits while its parent does.
SPECIFICATION Spec
CONSTANTS
  Cpus = {c1, c2}
  boot_cpu = c1
  Tasks = {t1, t2, t3}
  init_task = t1
  TASK_NO_CPU = TASK_NO_CPU
  NULL = NULL
  ANY = ANY
  Calls = {"fork", "wait", "exit"}
  Forkers = {t1, t2}
PROPERTY NotifiesItsParent
