\* Two callers and four changes, of which mihomo refuses the first and the third;
\* two sweeps of one slot each and a handler, over two nodes that come and go.
CONSTANTS
  Callers = {c1, c2}
  Debounce = 2
  Refused = {1, 3}
  NoConfig = none
  MaxVersion = 4
  Fps = {n1, n2}
  Sweeps = {s1, s2}
  Handlers = {h1}
  NoTest = none
  Limit = 1
SPECIFICATION BackgroundSpec
INVARIANTS NoLostTrigger StatusTruthful TableMatches WaitersHaveOwner NoOldResult
PROPERTIES ImplementsPromise SettlesOrStarves SweepsEnd
