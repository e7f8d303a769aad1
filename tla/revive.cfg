\* A mapping whose nodes vanish and come back.
CONSTANTS
  A = A
  B = B
  Direct = Direct
  Pg = pg
  us = us
  PortLo = 1
  PortHi = 1
  ListenPort = 8
  NoFilter = none
  MaxOwed = 1
  Ids = {1, 2, 3}
  Filters = {us}
  NameParts <- MCParts
  RawName <- NamesApart
  Reserved <- MCReserved
  Matches <- MatchesLast
  Inputs <- FewInputs
SPECIFICATION Spec
INVARIANT AutoDisabledStays
