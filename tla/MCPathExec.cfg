SPECIFICATION Spec
CONSTANTS
  Paths <- MCPaths
  Commands = {0, 1, 3}
  Sizes = {4}
  Fatal = {"ENOTDIR"}
INVARIANTS
  BufferIsExact
  Outcome
