\* Three CPUs; two-bit tickets, which wrap around.
\* In a panic, CPUs that do up to two things in the kernel.
CONSTANTS
  Cpus = {c1, c2, c3}
  Width = 2
SPECIFICATION SpecLocks
PROPERTIES
  ImplementsFifo
  TicketServed
  TasImplementsMutex
  TasLockTaken
  PanicStops
