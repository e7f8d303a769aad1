\* Two threads, manual links, a subscription whose provider never answers, failing
\* writes: every request is served.
CONSTANTS
  n1 = n1
  n2 = n2
  Threads = {t1, t2}
  Main = main
  Writers = {w1}
  Subs = {s1}
  Fps = {n1}
  Manual = manual
  Absent = absent
  None = none
  Lists <- NoAnswer
  MaxLinks = 1
  MaxBoots = 0
  Faults <- SavesFail
  Measured = {}
SPECIFICATION FairSpec
CHECK_DEADLOCK FALSE
PROPERTIES RequestsServed
