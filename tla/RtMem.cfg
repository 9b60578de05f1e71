SPECIFICATION Spec
CONSTANTS
  Threads = {t1, t2}
  None = None
  mem_size_aligned = 16
  SIZEOF_STRUCT_MEM = 2
  MIN_SIZE = 2
  RT_ALIGN_SIZE = 2
  Sizes = {0, 1, 7, 17}
  Counts = {3}
INVARIANTS HeapTiled HolesPlugged StatsExact
PROPERTY ImplementsAllocator
