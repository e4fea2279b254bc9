SPECIFICATION Spec
CONSTANTS
  MaxBytes = 20
  RuntimeBytes = 4
  ChunkBytes = 1
  TextBytes = 3
  NoMemoryBytes = 2
  Requests = {3}
  Blocks = {b1, b2}
  Chunks = {c1, c2}
  Modules = {m}
  Coroutines = {co}
  Limits = {1}
  None = None
INVARIANT NoStrayWrite
CHECK_DEADLOCK FALSE
