----------------------------- MODULE MCAppCore -----------------------------
(***************************************************************************)
(* Instances of AppCore for TLC.  Every configuration gives the constants  *)
(* small sets of model values; the definitions below are the values a      *)
(* configuration file cannot write.                                        *)
(***************************************************************************)
EXTENDS AppCore

CONSTANTS n1, n2

\* Answers of a provider: one node; two nodes.
ShortAndLong == {<<n1>>, <<n1, n2>>}

\* A single answer.
OneList == {<<n1>>}

\* The provider never answers.
NoAnswer == {}

AllFaults == {"crash", "shutdown", "saveFails"}

SavesFail == {"saveFails"}

NoFault == {}

\* Interchangeable threads and subscription ids; safety runs only.
Interchangeable == Permutations(Threads) \cup Permutations(Subs)
=============================================================================
