--------------------------- MODULE DurableConfig ---------------------------
(***************************************************************************)
(* What the configuration store promises: config.yaml holds a version of   *)
(* the configuration that was in memory at some moment since the process   *)
(* was started, never a version the program has not reached, and never one *)
(* older than what the process had loaded.  A version is the number of     *)
(* mutations it contains.                                                  *)
(***************************************************************************)
EXTENDS Naturals

VARIABLES
  mem,   \* the version in memory
  disk,  \* the version in config.yaml
  base   \* the version the process was started with

Init == mem = 0 /\ disk = 0 /\ base = 0

Mutate ==
  /\ mem' = mem + 1
  /\ UNCHANGED <<disk, base>>

Write ==
  /\ disk' \in base .. mem
  /\ UNCHANGED <<mem, base>>

\* A process ends, for whatever reason, and the next one loads the file.
Restart ==
  /\ mem' = disk /\ base' = disk
  /\ UNCHANGED disk

Next == Mutate \/ Write \/ Restart

Spec == Init /\ [][Next]_<<mem, disk, base>>
=============================================================================
