---------------------------- MODULE MCNodeSync ----------------------------
(***************************************************************************)
(* Instances of NodeSync for TLC, with the values of MCAppCore.            *)
(***************************************************************************)
EXTENDS NodeSync, MCAppCore
=============================================================================
