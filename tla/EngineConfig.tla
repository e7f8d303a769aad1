---------------------------- MODULE EngineConfig ---------------------------
(***************************************************************************)
(* The mihomo configuration that build() generates from the nodes of the   *)
(* pool and the mapping plans (internal/engine/generate.go), and whether   *)
(* mihomo takes it.                                                        *)
(*                                                                         *)
(* Fingerprints are numbers in their sort order.  A name is a sequence: a  *)
(* stem, then the numbers of its " #N" suffixes, so "A" is <<A>> and       *)
(* "A #2" is <<A, 2>>, whether build() made it or an airport sent it.      *)
(* A plan is [port, single, members, enabled]; members gives the places of *)
(* a node list that are filled their fingerprints, in the order of places. *)
(***************************************************************************)
EXTENDS Naturals, Sequences, FiniteSets

CONSTANTS
  Ids,       \* fingerprints
  NameParts, \* stems and suffix numbers
  Pg,        \* the stem of the names of groups
  RawName,   \* the display name of each node, or its short id when empty
  Reserved   \* names mihomo defines itself: DIRECT, REJECT, ...

ASSUME NameAssumption ==
  /\ Ids \subseteq Nat /\ IsFiniteSet(Ids)
  /\ RawName \in [Ids -> Seq(NameParts)]

Suffix(name, n) == Append(name, n)

\* The nodes with the same display name that build() meets before this one.
Before(nodes, id) == {j \in nodes : j < id /\ RawName[j] = RawName[id]}

\* nameOf: the first node of a name keeps it, the others get a suffix.
ProxyName(nodes, id) ==
  LET c == Cardinality(Before(nodes, id))
  IN  IF c = 0 THEN RawName[id] ELSE Suffix(RawName[id], c + 1)

GroupName(port) == <<Pg, port>>

Serving(plan) == plan.enabled /\ DOMAIN plan.members # {}

GroupNames(plans) ==
  {GroupName(plan.port) : plan \in {p \in plans : Serving(p) /\ ~p.single}}

\* executor.ParseWithBytes refuses a configuration in which two outbounds have
\* the same name.
Accepted(nodes, plans) ==
  /\ \A i, j \in nodes : ProxyName(nodes, i) = ProxyName(nodes, j) => i = j
  /\ \A i \in nodes : ProxyName(nodes, i) \notin Reserved \cup GroupNames(plans)

\* The node an outbound name stands for in the generated configuration.
NodeNamed(nodes, name) == CHOOSE id \in nodes : ProxyName(nodes, id) = name

\* The places a listener leads to: a single mapping's first, a group's all.
Used(plan) ==
  {k \in DOMAIN plan.members :
     plan.single => \A j \in DOMAIN plan.members : k <= j}

\* The listeners, each with the nodes its names stand for.
Listeners(nodes, plans) ==
  {[port |-> plan.port,
    members |-> [k \in Used(plan) |->
                   NodeNamed(nodes, ProxyName(nodes, plan.members[k]))]] :
     plan \in {p \in plans : Serving(p)}}
=============================================================================
