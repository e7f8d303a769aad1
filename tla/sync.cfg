\* Two threads, manual links, failing saves: what stays in agreement.
CONSTANTS
  n1 = n1
  n2 = n2
  Threads = {t1, t2}
  Main = main
  Writers = {}
  Subs = {s1}
  Fps = {n1, n2}
  Manual = manual
  Absent = absent
  None = none
  Lists <- ShortAndLong
  MaxLinks = 2
  MaxBoots = 0
  Faults <- SavesFail
  Measured = {}
SPECIFICATION SyncSpec
CHECK_DEADLOCK FALSE
INVARIANTS ManualInSync CacheInSync CountInSync
