----------------------------- MODULE NodeSelect -----------------------------
(***************************************************************************)
(* The node picker of the mapping dialog (components/node-multi-select.tsx):*)
(* what a click makes of the ordered list of selected nodes.               *)
(***************************************************************************)
EXTENDS Integers, SequencesExt

\* remove: what is left of the first i of the list, of all of them.
Without(value, node) ==
  LET left[i \in 0 .. Len(value)] ==
        IF i = 0 THEN <<>>
        ELSE IF value[i] = node THEN left[i - 1]
        ELSE Append(left[i - 1], value[i])
  IN left[Len(value)]

\* toggle: the one choice of a single mapping; else out if it is in, last if not.
Toggled(value, node, single) ==
  IF single THEN <<node>>
  ELSE IF node \in ToSet(value) THEN Without(value, node)
  ELSE Append(value, node)

\* move: an index or a target outside the list leaves it.
Moved(value, index, dir) ==
  IF index + dir \in DOMAIN value
  THEN [value EXCEPT ![index] = value[index + dir], ![index + dir] = value[index]]
  ELSE value

\* Keep the first choice when the strategy turns to single.
FirstOnly(value) == IF Len(value) > 1 THEN <<value[1]>> ELSE value
=============================================================================
