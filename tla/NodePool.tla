------------------------------ MODULE NodePool ------------------------------
(***************************************************************************)
(* The deduplicated node pool (internal/pool/pool.go).                     *)
(*                                                                         *)
(* The source of truth is one proxy list per subscription plus the manual  *)
(* proxy list; the deduplicated node map is derived from them by rebuild() *)
(* inside the same critical section (Pool.mu) as every change, so each     *)
(* exported method that writes is one action here.                         *)
(*                                                                         *)
(* A proxy map is abstracted to its fingerprint.  A Go map with a missing  *)
(* key is a total function with the value Absent (subProxies, subRefresh,  *)
(* which are always written and deleted together), the empty source set    *)
(* (nodes) or FALSE (latency).                                             *)
(***************************************************************************)
EXTENDS Sequences

CONSTANTS
  Subs,     \* subscription ids
  Fps,      \* node fingerprints
  Manual,   \* the reserved source token of manually added nodes
  Absent    \* a subscription id without an entry in the pool

ASSUME PoolAssumption ==
  /\ Manual \notin Subs
  /\ Absent \notin Seq(Fps)

VARIABLES
  contrib,  \* subProxies and subRefresh: the proxy list last stored for an id
  manual,   \* manualProxies: the fingerprints of the manual proxies
  nodes,    \* fingerprint -> sources; no source means not in the pool
  latency   \* fingerprint -> whether a measurement is recorded

poolVars == <<contrib, manual, nodes, latency>>

Sources == Subs \cup {Manual}

Elems(list) == {list[i] : i \in DOMAIN list}

\* What a subscription with the given entry contributes to the pool.
Proxies(entry) == IF entry = Absent THEN {} ELSE Elems(entry)

\* rebuild(): one node per fingerprint, with every source that lists it.
Merged(c, m) ==
  [fp \in Fps |-> {s \in Subs : fp \in Proxies(c[s])}
                    \cup {src \in {Manual} : fp \in m}]

InPool(fp) == nodes[fp] # {}

Pooled == {fp \in Fps : InPool(fp)}

\* rebuild() also prunes the measurements of fingerprints that are gone.
Rebuild ==
  /\ nodes' = Merged(contrib', manual')
  /\ latency' = [fp \in Fps |-> latency[fp] /\ nodes'[fp] # {}]

PoolInit ==
  /\ contrib = [s \in Subs |-> Absent]
  /\ manual = {}
  /\ nodes = [fp \in Fps |-> {}]
  /\ latency = [fp \in Fps |-> FALSE]

-----------------------------------------------------------------------------
SetSubscriptionNodes(s, list) ==
  /\ contrib' = [contrib EXCEPT ![s] = list]
  /\ UNCHANGED manual
  /\ Rebuild

RemoveSubscription(s) ==
  /\ contrib' = [contrib EXCEPT ![s] = Absent]
  /\ UNCHANGED manual
  /\ Rebuild

SetManualNodes(fps) ==
  /\ manual' = fps
  /\ UNCHANGED contrib
  /\ Rebuild

\* A measurement that ends after its node left the pool is dropped.
SetLatency(fp) ==
  /\ latency' = [latency EXCEPT ![fp] = @ \/ InPool(fp)]
  /\ UNCHANGED <<contrib, manual, nodes>>

\* Whether the node exists and manual entry is its only source (deletable).
OnlyManual(fp) == nodes[fp] = {Manual}

-----------------------------------------------------------------------------
PoolTypeOK ==
  /\ contrib \in [Subs -> Seq(Fps) \cup {Absent}]
  /\ manual \in SUBSET Fps
  /\ nodes \in [Fps -> SUBSET Sources]
  /\ latency \in [Fps -> BOOLEAN]

\* The derived map always agrees with the lists it is derived from, and a
\* measurement is kept only for a node of the pool (pool.go rebuild and
\* SetLatency): a stale derived map would keep serving nodes no source lists.
PoolDerived ==
  /\ nodes = Merged(contrib, manual)
  /\ \A fp \in Fps : latency[fp] => InPool(fp)
=============================================================================
