CONSTANTS
  d1 = d1
  d2 = d2
  Mixed = mixed
  PAGE_LEN = 2
  PAGE_NUM = 2
  Sectors = 2
  Byte = {d1, d2}
  Data <- MCData
  Lengths = {1, 3, 4, 6, 31}
SPECIFICATION Spec
PROPERTIES SuccessMeansStored
