\* A refresh overtakes a delete.
CONSTANTS
  n1 = n1
  n2 = n2
  Threads = {t1, t2}
  Main = main
  Writers = {w1}
  Subs = {s1}
  Fps = {n1, n2}
  Manual = manual
  Absent = absent
  None = none
  Lists <- OneList
  MaxLinks = 0
  MaxBoots = 0
  Faults <- NoFault
  Measured = {}
SPECIFICATION Spec
CHECK_DEADLOCK FALSE
INVARIANT NoOrphanNodes
