\* Two threads over a subscription, two timer callbacks, kills, stops and failing
\* saves, measurements, two restarts.
CONSTANTS
  n1 = n1
  n2 = n2
  Threads = {t1, t2}
  Main = main
  Writers = {w1, w2}
  Subs = {s1}
  Fps = {n1}
  Manual = manual
  Absent = absent
  None = none
  Lists <- OneList
  MaxLinks = 0
  MaxBoots = 2
  Faults <- AllFaults
  Measured = {n1}
SPECIFICATION Spec
SYMMETRY Interchangeable
CHECK_DEADLOCK FALSE
INVARIANTS OrphanOnlyByRace LeakOnlyByRace NoLostReload NoLostConfigWrite
PROPERTIES DeletedForGood ExitKeepsConfig
