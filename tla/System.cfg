\* A device with two readers; one CPU, or one for each reader and for the handler.
\* Two processes with one descriptor each on one directory.  A file of at most 4 bytes.
\* Every tree of up to 4 interrupt controllers (and of 5, which are too many); 6 PCI devices.
\* The other parts have their bounds in MCSystem.
CONSTANTS
  Tasks = {t1, t2}
  Width = 2
  NULL = NULL
  p1 = p1
  p2 = p2
  e1 = e1
  e2 = e2
  root = root
  dev = dev
  CpuCounts = {1, 3}
  Sizes = {0, 2, 3}
  MaxBytes = 4
  MaxCount = 2
SYMMETRY Symmetry
SPECIFICATION SpecSystem
\* All bytes have arrived and the readers sleep.
CHECK_DEADLOCK FALSE
INVARIANTS
  ReadersServed
  
  DevicesProbed
  
  
  
  LinesParsed
  ContextKept
PROPERTY
  ImplementsQueue
  ImplementsByteFile
