CONSTANTS
  Regions <- MCRegions
  portBYTE_ALIGNMENT = 8
  SIZE_MAX = 511
  Requests = {0, 1, 24, 40, 300, 505}
  Arrays <- MCArrays
  Frees = 2
SPECIFICATION Spec
VIEW MCView
INVARIANTS CountsFreeBlocks
