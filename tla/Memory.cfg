\* Two processes on two CPUs with four frames, of three pages each; or a heap.
CONSTANTS
  Cpus = {c1, c2}
  Procs = {p1, p2}
  init_proc = p1
  Frames = {f1, f2, f3, f4}
  Machines <- SmallMachines
  TextSize = 1
  HeapSize = 1
  StackSize = 1
  TlbSize = 1
  Writers = {p1}
  MaxDirty = 1
  NULL = NULL
SYMMETRY Symmetry
SPECIFICATION SpecMemory
\* A process whose heap is full of blocks that realloc() lost may stop.
CHECK_DEADLOCK FALSE
INVARIANTS
  HeapSound
  
  
  

  
