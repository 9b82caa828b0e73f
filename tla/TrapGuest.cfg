\* A process and a guest on one CPU.
CONSTANTS
  Procs = {p1}
  Guests = {v1}
  NULL = NULL
SPECIFICATION Spec
INVARIANT KernelOnItsStack
