\* Writes that may fail, overlap and overtake each other.
CONSTANTS
  Mutators = {m1, m2}
  Timers = {x1, x2}
  NoTimer = nil
  Writers = {w1, w2}
  Flusher = flusher
  MaxVersion = 2
  WriteFails = TRUE
SPECIFICATION FairSpec
INVARIANTS NoLostMutation
PROPERTIES ExitKeepsAll ImplementsDurable EventuallySaved
