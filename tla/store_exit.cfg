\* No write fails; the process is stopped while a callback is writing.
CONSTANTS
  Mutators = {m1, m2}
  Timers = {x1, x2}
  NoTimer = nil
  Writers = {w1, w2}
  Flusher = flusher
  MaxVersion = 2
  WriteFails = FALSE
SPECIFICATION FairSpec
PROPERTIES FlushedAtExit
