CONSTANTS
  r1 = r1  r2 = r2  r3 = r3
  Request <- ThreeRequests
  QrMax = 2
  Timeout = 1
  Admits <- OnTime
  MaxQr = 3
  MaxNow = 2
SYMMETRY Interchangeable
SPECIFICATION Spec
INVARIANTS OneRequestPerQr ServedIsUnused
