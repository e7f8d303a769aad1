\* A list page, its server and other clients: two rows, two calls, one change.
CONSTANTS
  Items = {i1, i2}
  NoItem = none
  Calls = {c1, c2}
  MaxChanges = 1
  Manual = {i1}
SPECIFICATION ConsoleFairSpec
INVARIANTS AtRestFresh NoDoubleSubmit
PROPERTIES SpinnersStop
CHECK_DEADLOCK FALSE
