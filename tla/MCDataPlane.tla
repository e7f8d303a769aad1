---------------------------- MODULE MCDataPlane ----------------------------
(***************************************************************************)
(* Instances of DataPlane for TLC: nodes that have names in common with    *)
(* each other or with a group, and ports 1 and 2.                          *)
(***************************************************************************)
EXTENDS DataPlane

CONSTANTS A, B, Direct, us

MCParts == {A, B, Direct, Pg, 1, 2}

\* Two nodes with the name of the group of port 1: build() numbers the second.
NamesOfGroup == [id \in 1 .. 2 |-> <<Pg, 1>>]

\* Two nodes with one name, and a third with a name of its own ...
NamesApart == [id \in 1 .. 3 |-> IF id = 3 THEN <<B>> ELSE <<A>>]

\* ... or the one build() gives to the second.
NamesClash == [id \in 1 .. 3 |-> IF id = 3 THEN <<A, 2>> ELSE <<A>>]

MCReserved == {<<Direct>>}

\* The pattern matches two nodes, in the order of their fingerprints or not.
MatchesAll == [f \in {us} |-> <<1, 2>>]
MatchesLast == [f \in {us} |-> <<3, 2>>]

In(port, single, nodes, filter, sound) ==
  [port |-> port, single |-> single, nodes |-> nodes, filter |-> filter,
   sound |-> sound, enabled |-> TRUE]

\* A group over a pattern on any port, one over an ordered list on port 1, a single
\* node on port 2; and inputs that
\* validation turns away: no nodes, two for a single one, a port out of range, an
\* unsound field.
MCInputs ==
  {In(0, FALSE, <<>>, us, TRUE),
   In(1, FALSE, <<2, 1>>, NoFilter, TRUE),
   In(2, TRUE, <<1>>, NoFilter, TRUE),
   In(0, FALSE, <<>>, NoFilter, TRUE),
   In(1, TRUE, <<1, 2>>, NoFilter, TRUE),
   In(9, TRUE, <<2>>, NoFilter, TRUE),
   In(0, TRUE, <<2>>, NoFilter, FALSE)}

\* A group over an ordered list and one over a pattern.
FewInputs ==
  {In(0, FALSE, <<2, 1>>, NoFilter, TRUE),
   In(0, FALSE, <<>>, us, TRUE)}
=============================================================================
