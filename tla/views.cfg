\* The views that share no state, one per behaviour.
CONSTANTS
  n1 = n1
  n2 = n2
  hk = hk
  hkpad = hkpad
  js = js
  re2 = re2
  blank = blank
  Timers = {t1, t2, t3}
  None = none
  TickLimit = 2
  MaxAsked = 2
  MaxLoads = 2
  Values = {v1, v2}
  NoValue = novalue
  Polls = {p1, p2, p3}
  Tested = {n1, n2}
  NoFilter = nofilter
  Targets <- MCTargets
  Matched <- MCMatched
  MaxTests = 2
  Slots = {s1, s2}
  MaxLogins = 2
  Nodes = {n1, n2}
  PortLo = 1
  PortHi = 3
  TakenPorts = {1}
  PortTexts = {0, 1, nonumber}
  Patterns = {hk, hkpad, js, re2, blank}
  NoPattern = nopattern
  Trimmed <- MCTrimmed
  JsPatterns = {hk, hkpad, js, blank}
  Re2Patterns = {hk, hkpad, re2, blank}
  Intervals = {0, 5, 60, 300}
  NoCheck = nocheck
  NoNumber = nonumber
  Absent = absent
  MaxTouched = 2
  MaxSaves = 1
SPECIFICATION ViewsSpec
INVARIANTS OnePoll ButtonMatchesPoll SpinnerHasTest RefusedOnlyFor
PROPERTIES CutShortOnlyByLateCallback PollingEnds StatusCatchesUp OthersKept ThrownOutOnlyBy
CHECK_DEADLOCK FALSE
