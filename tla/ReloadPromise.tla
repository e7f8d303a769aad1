--------------------------- MODULE ReloadPromise ---------------------------
(***************************************************************************)
(* What the engine promises its callers: a change of the state is followed *)
(* by a reload that reads the state after it; a reload hands mihomo exactly *)
(* what it read, or, when mihomo refuses that, leaves the last accepted     *)
(* configuration serving and shows an error.                               *)
(*                                                                         *)
(* A version of the state is the number of changes it contains.            *)
(***************************************************************************)
EXTENDS Naturals

CONSTANTS
  Refused,   \* the versions whose configuration mihomo refuses
  NoConfig   \* mihomo has no configuration yet

VARIABLES
  now,     \* the version of the state
  due,     \* a reload will come that reads the state as it is then
  reading, \* the version a reload is working on: at most one
  served,  \* the version mihomo runs
  err      \* the status shows an error

vars == <<now, due, reading, served, err>>

Init ==
  /\ now = 0
  /\ due = FALSE
  /\ reading = {}
  /\ IF 0 \in Refused THEN served = NoConfig /\ err = TRUE
                     ELSE served = 0 /\ err = FALSE

\* The state changes, or may have, and the engine is told.
Change ==
  /\ now' \in {now, now + 1}
  /\ due' = TRUE
  /\ UNCHANGED <<reading, served, err>>

\* A reload begins; another may be due all the same.
Read ==
  /\ due /\ reading = {}
  /\ reading' = {now}
  /\ due' \in BOOLEAN
  /\ UNCHANGED <<now, served, err>>

Install ==
  \E v \in reading \ Refused :
    /\ served' = v
    /\ err' = FALSE
    /\ reading' = {}
    /\ UNCHANGED <<now, due>>

Refuse ==
  \E v \in reading \cap Refused :
    /\ err' = TRUE
    /\ reading' = {}
    /\ UNCHANGED <<now, due, served>>

Next == Change \/ Read \/ Install \/ Refuse

Spec == Init /\ [][Next]_vars
=============================================================================
