\* Two CPUs with ticks: four tasks that compute, yield and fork, or three that also sleep.
SPECIFICATION SpecLive
CONSTANTS
  t1 = t1
  t2 = t2
  t3 = t3
  Cpus = {c1, c2}
  boot_cpu = c1
  Tasks = {t1, t2, t3, t4}
  init_task = t1
  TASK_NO_CPU = TASK_NO_CPU
  NULL = NULL
  ANY = ANY
  Calls = {"yield", "fork"}
  Forkers = {t1}
PROPERTIES
  TasksRun
