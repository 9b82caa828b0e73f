CONSTANTS
  Header = 1
  InitSize = 6
  MaxSize = 6
  Page = 2
  Sizes = {1, 2}
  Resizes = {}
  NULL = NULL
SPECIFICATION Spec
CHECK_DEADLOCK FALSE
INVARIANT HeapPassesFsck
