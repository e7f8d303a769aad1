\* Two ports; two nodes with the name of a group, so that mihomo refuses some of the
\* configurations.
CONSTANTS
  A = A
  B = B
  Direct = Direct
  Pg = pg
  us = us
  PortLo = 1
  PortHi = 2
  ListenPort = 8
  NoFilter = none
  MaxOwed = 1
  Ids = {1, 2}
  Filters = {us}
  NameParts <- MCParts
  RawName <- NamesOfGroup
  Reserved <- MCReserved
  Matches <- MatchesAll
  Inputs <- MCInputs
SPECIFICATION FairSpec
INVARIANTS ConfigLoads QuietServes
PROPERTIES OthersUntouched CatchesUp DisabledCloses
