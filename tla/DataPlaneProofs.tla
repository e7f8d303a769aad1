-------------------------- MODULE DataPlaneProofs --------------------------
(***************************************************************************)
(* What DataPlane guarantees for every port range, every set of inputs,    *)
(* nodes, names and patterns, and any number of handlers.                  *)
(***************************************************************************)
EXTENDS DataPlane, TLAPS, SequenceTheorems, FiniteSetTheorems

-----------------------------------------------------------------------------
(* Lists of mappings *)

\* IndexOf finds an entry on a port that has one.
LEMMA IndexOfIs ==
  ASSUME NEW port \in UsedPorts(mappings)
  PROVE  /\ IndexOf(port) \in DOMAIN mappings
         /\ mappings[IndexOf(port)].port = port
BY DEF UsedPorts, IndexOf

\* Cutting out one entry keeps the others, in order.
LEMMA RemoveAtIs ==
  ASSUME NEW S, NEW s \in Seq(S), NEW i \in DOMAIN s
  PROVE  /\ RemoveAt(s, i) \in Seq(S)
         /\ Len(RemoveAt(s, i)) = Len(s) - 1
         /\ \A k \in 1 .. Len(s) - 1 :
              RemoveAt(s, i)[k] = IF k < i THEN s[k] ELSE s[k + 1]
<1>1. i \in 1 .. Len(s) /\ Len(s) \in Nat
  OBVIOUS
<1> DEFINE a == SubSeq(s, 1, i - 1)
           b == SubSeq(s, i + 1, Len(s))
<1>2. /\ a \in Seq(S) /\ Len(a) = i - 1
      /\ \A k \in 1 .. i - 1 : a[k] = s[k]
  BY <1>1, SubSeqProperties
<1>3. /\ b \in Seq(S) /\ Len(b) = Len(s) - i
      /\ \A k \in 1 .. Len(s) - i : b[k] = s[i + k]
  BY <1>1, SubSeqProperties
<1>4. RemoveAt(s, i) = a \o b
  BY DEF RemoveAt
<1> HIDE DEF a, b
<1>5. /\ a \o b \in Seq(S) /\ Len(a \o b) = Len(a) + Len(b)
      /\ \A k \in 1 .. Len(a) + Len(b) :
           (a \o b)[k] = IF k <= Len(a) THEN a[k] ELSE b[k - Len(a)]
  BY <1>2, <1>3, ConcatProperties
<1>6. ASSUME NEW k \in 1 .. Len(s) - 1
      PROVE  (a \o b)[k] = IF k < i THEN s[k] ELSE s[k + 1]
  <2>1. CASE k < i
    <3>1. k \in 1 .. i - 1
      BY <1>1, <2>1
    <3>2. k \in 1 .. Len(a) + Len(b) /\ k <= Len(a)
      BY <1>1, <1>2, <1>3, <2>1
    <3>3. (a \o b)[k] = a[k]
      BY ONLY <1>5, <3>2
    <3>4. a[k] = s[k]
      BY ONLY <1>2, <3>1
    <3> QED
      BY ONLY <2>1, <3>3, <3>4
  <2>2. CASE ~(k < i)
    <3>1. k - Len(a) \in 1 .. Len(s) - i /\ k - Len(a) = k + 1 - i
      BY <1>1, <1>2, <2>2
    <3>2. b[k - Len(a)] = s[k + 1]
      BY <1>1, <1>3, <3>1
    <3>3. (a \o b)[k] = b[k - Len(a)]
      <4>1. k \in 1 .. Len(a) + Len(b) /\ ~(k <= Len(a))
        BY <1>1, <1>2, <1>3, <2>2
      <4> QED
        BY ONLY <4>1, <1>5
    <3> QED
      BY ONLY <2>2, <3>2, <3>3
  <2> QED
    BY <2>1, <2>2
<1>7. Len(a \o b) = Len(s) - 1
  BY <1>1, <1>2, <1>3, <1>5
<1> QED
  BY ONLY <1>4, <1>5, <1>6, <1>7

\* A mapping built from an input is a mapping.
LEMMA BuildType ==
  ASSUME NEW in \in Inputs, NEW port \in PortRange
  PROVE  Build(in, port) \in MappingSet /\ Build(in, port).port = port
BY DataPlaneAssumption DEF Build, MappingSet

\* Config.Validate takes a port of the range only.
LEMMA CreatePort ==
  ASSUME NEW in, NEW port, mappings \in Seq(MappingSet), in \in Inputs,
         CreateMapping(in, port)
  PROVE  port \in PortRange
<1>1. Build(in, port).port = port
  BY DataPlaneAssumption DEF Build
<1> DEFINE m == Build(in, port)
           n == Len(mappings) + 1
<1>2. n \in DOMAIN Append(mappings, m) /\ Append(mappings, m)[n] = m
  BY AppendProperties
<1> HIDE DEF n, m
<1>3. Validate(Append(mappings, m))
  BY DEF CreateMapping, Store, m
<1> QED
  BY <1>1, <1>2, <1>3 DEF Validate, m

LEMMA UpdatePort ==
  ASSUME NEW in, NEW port, NEW old, mappings \in Seq(MappingSet), in \in Inputs,
         UpdateMapping(old, in, port)
  PROVE  port \in PortRange
<1>1. Build(in, port).port = port
  BY DataPlaneAssumption DEF Build
<1> DEFINE m == Build(in, port)
           n == IndexOf(old)
           next == [mappings EXCEPT ![n] = m]
<1>2. n \in DOMAIN mappings
  BY IndexOfIs DEF UpdateMapping
<1> HIDE DEF n, m
<1>3. n \in DOMAIN next /\ next[n] = m
  BY <1>2
<1>4. Validate(next)
  BY DEF UpdateMapping, Store, m, n
<1> HIDE DEF next
<1> QED
  BY <1>1, <1>3, <1>4 DEF Validate, m

\* A list of mappings that Config.Validate takes.
MappingsInv == mappings \in Seq(MappingSet) /\ Validate(mappings)

LEMMA StoreKeeps ==
  ASSUME MappingsInv, NEW next \in Seq(MappingSet), Store(next)
  PROVE  MappingsInv'
BY DEF MappingsInv, Store

LEMMA CreateKeeps ==
  ASSUME MappingsInv, NEW in \in Inputs, NEW port \in PortRange,
         CreateMapping(in, port)
  PROVE  MappingsInv'
<1>1. Append(mappings, Build(in, port)) \in Seq(MappingSet)
  BY BuildType, AppendProperties DEF MappingsInv
<1> QED
  BY <1>1, StoreKeeps DEF CreateMapping

LEMMA UpdateKeeps ==
  ASSUME MappingsInv, NEW in \in Inputs, NEW port \in PortRange,
         NEW old \in PortRange, UpdateMapping(old, in, port)
  PROVE  MappingsInv'
<1>1. IndexOf(old) \in DOMAIN mappings
  BY IndexOfIs DEF UpdateMapping
<1>2. [mappings EXCEPT ![IndexOf(old)] = Build(in, port)] \in Seq(MappingSet)
  BY <1>1, BuildType, ExceptSeq DEF MappingsInv
<1> QED
  BY <1>2, StoreKeeps DEF UpdateMapping

LEMMA DeleteKeeps ==
  ASSUME MappingsInv, NEW port \in PortRange, DeleteMapping(port)
  PROVE  MappingsInv'
<1> DEFINE n == IndexOf(port)
<1>1. n \in DOMAIN mappings
  BY IndexOfIs DEF DeleteMapping
<1> HIDE DEF n
<1>2. mappings' = RemoveAt(mappings, n)
  BY DEF DeleteMapping, n
<1>3. /\ mappings' \in Seq(MappingSet) /\ Len(mappings') = Len(mappings) - 1
      /\ \A k \in 1 .. Len(mappings) - 1 :
           mappings'[k] = IF k < n THEN mappings[k] ELSE mappings[k + 1]
  BY <1>1, <1>2, RemoveAtIs DEF MappingsInv
<1>4. n \in 1 .. Len(mappings) /\ Len(mappings) \in Nat
  BY <1>1 DEF MappingsInv
<1> DEFINE was(k) == IF k < n THEN k ELSE k + 1
<1>5. \A k \in DOMAIN mappings' : was(k) \in DOMAIN mappings /\ mappings'[k] = mappings[was(k)]
  BY <1>3, <1>4 DEF MappingsInv
<1>6. \A j, k \in DOMAIN mappings' : was(j) = was(k) => j = k
  BY <1>3, <1>4
<1> HIDE DEF was
<1> QED
  BY <1>3, <1>5, <1>6 DEF MappingsInv, Validate

LEMMA SetEnabledKeeps ==
  ASSUME MappingsInv, NEW port \in PortRange, NEW enabled \in BOOLEAN,
         SetMappingEnabled(port, enabled)
  PROVE  MappingsInv'
<1> DEFINE n == IndexOf(port)
<1>1. n \in DOMAIN mappings
  BY IndexOfIs DEF SetMappingEnabled
<1> HIDE DEF n
<1>2. mappings' = [mappings EXCEPT ![n] = [mappings[n] EXCEPT !.enabled = enabled]]
  BY DEF SetMappingEnabled, n
<1>3. mappings[n] \in MappingSet
  BY <1>1 DEF MappingsInv
<1>4. [mappings[n] EXCEPT !.enabled = enabled] \in MappingSet
  BY <1>3 DEF MappingSet
<1>5. mappings' \in Seq(MappingSet) /\ DOMAIN mappings' = DOMAIN mappings
  BY <1>1, <1>2, <1>4, ExceptSeq DEF MappingsInv
<1>6. \A k \in DOMAIN mappings :
        /\ mappings'[k].port = mappings[k].port
        /\ WellFormed(mappings[k]) => WellFormed(mappings'[k])
  BY <1>1, <1>2, <1>3 DEF MappingsInv, MappingSet, WellFormed
<1> QED
  BY <1>5, <1>6 DEF MappingsInv, Validate

-----------------------------------------------------------------------------
(* Types and validity *)

\* Ports in use are ports of the range.
LEMMA PortsInRange ==
  ASSUME MappingsInv
  PROVE  AutoDisabled \subseteq PortRange
BY DEF MappingsInv, Validate, AutoDisabled

\* Listeners are on ports of the range.
LEMMA BuiltType ==
  ASSUME MappingsInv
  PROVE  Built.ok \in BOOLEAN /\ \A l \in Built.listeners : l.port \in PortRange
<1>1. \A plan \in Plans : plan.port \in PortRange
  BY DEF MappingsInv, Validate, Plans, PlanOf
<1>2. \A l \in Listeners(present, Plans) : l.port \in PortRange
  BY <1>1 DEF Listeners
<1>3. Accepted(present, Plans) \in BOOLEAN
  BY DEF Accepted
<1> QED
  BY <1>2, <1>3 DEF Built

\* Memory always holds a valid list of mappings.
DataInv ==
  /\ TypeOK
  /\ Validate(mappings)
  /\ \A c \in held : \A l \in c.listeners : l.port \in PortRange

LEMMA DataInvInit == Init => DataInv
<1> SUFFICES ASSUME Init PROVE DataInv
  OBVIOUS
<1>1. mappings \in Seq(MappingSet) /\ Validate(mappings)
  BY DEF Init, MappingInit, Validate
<1>2. owed \in 0 .. MaxOwed
  BY PortAssumption DEF Init, MappingInit
<1>3. reload \in BOOLEAN /\ err \in BOOLEAN /\ asked \in BOOLEAN
  BY DEF Init, MappingInit
<1>4. present \in SUBSET Ids /\ fallen \in SUBSET PortRange /\ held = {} /\ served = {}
  BY DEF Init
<1> QED
  BY <1>1, <1>2, <1>3, <1>4 DEF DataInv, TypeOK

LEMMA DataInvStep == DataInv /\ [Next]_vars => DataInv'
<1> SUFFICES ASSUME DataInv, [Next]_vars PROVE DataInv'
  OBVIOUS
<1>1. MappingsInv
  BY DEF DataInv, TypeOK, MappingsInv
<1> DEFINE Rest == /\ owed' \in 0 .. MaxOwed /\ reload' \in BOOLEAN
                   /\ present' \in SUBSET Ids
                   /\ \A c \in held' : c.ok \in BOOLEAN
                   /\ \A l \in served' : l.port \in PortRange
                   /\ err' \in BOOLEAN /\ asked' \in BOOLEAN
                   /\ fallen' \in SUBSET PortRange
                   /\ \A c \in held' : \A l \in c.listeners : l.port \in PortRange
<1>2. SUFFICES MappingsInv' /\ Rest
  BY DEF DataInv, TypeOK, MappingsInv
<1> USE DEF DataInv, TypeOK, mappingVars, engineVars
<1>3. ASSUME NEW in \in Inputs, NEW port, Create(in, port)
      PROVE  MappingsInv' /\ Rest
  <2>1. port \in PortRange
    BY <1>3, CreatePort DEF Create
  <2>2. MappingsInv'
    BY <1>1, <1>3, <2>1, CreateKeeps DEF Create
  <2> QED
    BY <1>3, <2>2 DEF Create, CreateMapping, Store
<1>4. ASSUME NEW old \in PortRange, NEW port, NEW in \in Inputs,
             Update(old, in, port)
      PROVE  MappingsInv' /\ Rest
  <2>1. port \in PortRange
    BY <1>4, UpdatePort DEF Update
  <2>2. MappingsInv'
    BY <1>1, <1>4, <2>1, UpdateKeeps DEF Update
  <2> QED
    BY <1>4, <2>2 DEF Update, UpdateMapping, Store
<1>5. ASSUME NEW port \in PortRange, Delete(port) PROVE MappingsInv' /\ Rest
  <2>1. MappingsInv'
    BY <1>1, <1>5, DeleteKeeps DEF Delete
  <2> QED
    BY <1>5, <2>1, PortAssumption DEF Delete, DeleteMapping
<1>6. ASSUME NEW port \in PortRange, NEW enabled \in BOOLEAN,
             SetEnabled(port, enabled)
      PROVE  MappingsInv' /\ Rest
  <2>1. MappingsInv'
    BY <1>1, <1>6, SetEnabledKeeps DEF SetEnabled
  <2> QED
    BY <1>6, <2>1, PortAssumption DEF SetEnabled, SetMappingEnabled
<1>7. CASE RequestReload
  BY <1>1, <1>7, PortAssumption DEF RequestReload, Publish, MappingsInv, Validate
<1>8. ASSUME NEW nodes \in SUBSET Ids, PoolChange(nodes)
      PROVE  MappingsInv' /\ Rest
  BY <1>1, <1>8, PortAssumption DEF PoolChange, MappingsInv, Validate
<1>9. CASE Snapshot
  BY <1>1, <1>9, BuiltType DEF Snapshot, MappingsInv, Validate
<1>10. CASE Apply
  BY <1>1, <1>10, PortsInRange DEF Apply, MappingsInv, Validate
<1>11. CASE Reject
  BY <1>1, <1>11 DEF Reject, MappingsInv, Validate
<1>12. CASE UNCHANGED vars
  BY <1>1, <1>12 DEF vars, MappingsInv, Validate
<1> QED
  BY <1>3, <1>4, <1>5, <1>6, <1>7, <1>8, <1>9, <1>10, <1>11, <1>12 DEF Next

\* The state has the types of the declarations (core/app.go:22-37).
THEOREM TypeCorrect == Spec => []TypeOK
<1>1. DataInv => TypeOK
  BY DEF DataInv
<1> QED
  BY <1>1, DataInvInit, DataInvStep, PTL DEF Spec

\* Whatever the handlers do, what memory holds passes Config.Validate and will
\* load again (config/validate.go:13-15, core/mappings.go:163-172).
THEOREM ConfigAlwaysLoads == Spec => []ConfigLoads
<1>1. DataInv => ConfigLoads
  BY DEF DataInv, ConfigLoads
<1> QED
  BY <1>1, DataInvInit, DataInvStep, PTL DEF Spec

-----------------------------------------------------------------------------
(* What the handlers find and leave *)

\* A handler finds the only mapping on its port, and changes no other.
LEMMA HandlerKeepsOthers ==
  ASSUME MappingsInv, NEW port \in PortRange,
         \/ DeleteMapping(port)
         \/ \E enabled \in BOOLEAN : SetMappingEnabled(port, enabled)
         \/ \E in \in Inputs :
              CreateMapping(in, port) \/ \E q \in Ports : UpdateMapping(port, in, q)
  PROVE  OthersKept(port)
<1> SUFFICES ASSUME NEW i \in DOMAIN mappings, mappings[i].port # port
             PROVE  \E k \in DOMAIN mappings' : mappings'[k] = mappings[i]
  BY DEF OthersKept
<1> DEFINE n == IndexOf(port)
<1>1. mappings \in Seq(MappingSet) /\ i \in 1 .. Len(mappings) /\ Len(mappings) \in Nat
  BY DEF MappingsInv
<1>2. port \in UsedPorts(mappings) => n \in 1 .. Len(mappings) /\ n # i
  BY <1>1, IndexOfIs
<1> HIDE DEF n
<1>3. CASE DeleteMapping(port)
  <2>1. mappings' = RemoveAt(mappings, n) /\ n \in 1 .. Len(mappings) /\ n # i
    BY <1>2, <1>3 DEF DeleteMapping, n
  <2>2. /\ Len(mappings') = Len(mappings) - 1 /\ mappings' \in Seq(MappingSet)
        /\ \A k \in 1 .. Len(mappings) - 1 :
             mappings'[k] = IF k < n THEN mappings[k] ELSE mappings[k + 1]
    <3>1. n \in DOMAIN mappings
      BY <1>1, <2>1
    <3> QED
      BY ONLY <1>1, <2>1, <3>1, RemoveAtIs
  <2>3. CASE i < n
    <3>1. i \in 1 .. Len(mappings) - 1
      BY <1>1, <2>1, <2>3
    <3> QED
      BY <2>2, <2>3, <3>1
  <2>4. CASE ~(i < n)
    <3>1. i - 1 \in 1 .. Len(mappings) - 1 /\ ~(i - 1 < n) /\ (i - 1) + 1 = i
      BY <1>1, <2>1, <2>4
    <3> QED
      BY <2>2, <3>1
  <2> QED
    BY <2>3, <2>4
<1>4. CASE \E enabled \in BOOLEAN : SetMappingEnabled(port, enabled)
  <2>1. /\ n \in 1 .. Len(mappings) /\ n # i
        /\ \E m : mappings' = [mappings EXCEPT ![n] = m]
    BY <1>2, <1>4 DEF SetMappingEnabled, n
  <2> QED
    BY <1>1, <2>1
<1>5. CASE \E in \in Inputs : CreateMapping(in, port)
  <2>1. PICK m \in MappingSet : mappings' = Append(mappings, m)
    BY <1>5, BuildType DEF CreateMapping, Store
  <2>2. i \in DOMAIN mappings' /\ mappings'[i] = mappings[i]
    BY <1>1, <2>1, AppendProperties
  <2> QED
    BY <2>2
<1>6. CASE \E in \in Inputs, q \in Ports : UpdateMapping(port, in, q)
  <2>1. /\ n \in 1 .. Len(mappings) /\ n # i
        /\ \E m : mappings' = [mappings EXCEPT ![n] = m]
    BY <1>2, <1>6 DEF UpdateMapping, Store, n
  <2> QED
    BY <1>1, <2>1
<1> QED
  BY <1>3, <1>4, <1>5, <1>6

\* No handler changes a mapping of another port, also when an update moves its own
\* to a new port and positions shift (core/mappings.go:50-118).
THEOREM OthersStayUntouched == Spec => OthersUntouched
<1> DEFINE Keeps == \A port \in PortRange :
             \/ DeleteMapping(port)
             \/ \E enabled \in BOOLEAN : SetMappingEnabled(port, enabled)
             \/ \E in \in Inputs :
                  CreateMapping(in, port) \/ \E q \in Ports : UpdateMapping(port, in, q)
             => OthersKept(port)
<1>1. DataInv => Keeps
  BY HandlerKeepsOthers DEF DataInv, TypeOK, MappingsInv
<1>2. DataInv /\ [Next]_vars => [Keeps]_mappings
  BY <1>1
<1> QED
  BY <1>2, DataInvInit, DataInvStep, PTL DEF Spec, OthersUntouched

-----------------------------------------------------------------------------
(* Listeners *)

\* In a configuration mihomo takes, the name of a node leads back to the node.
LEMMA NameLeadsBack ==
  ASSUME NEW nodes, NEW plans, Accepted(nodes, plans), NEW id \in nodes
  PROVE  NodeNamed(nodes, ProxyName(nodes, id)) = id
BY DEF Accepted, NodeNamed

\* A valid mapping's listener leads to every node the mapping resolves to.
LEMMA AllPlacesUsed ==
  ASSUME MappingsInv, NEW i \in DOMAIN mappings, NEW nodes
  PROVE  Used(PlanOf(mappings[i], nodes)) = DOMAIN Resolve(mappings[i], nodes)
<1> DEFINE m == mappings[i]
           plan == PlanOf(m, nodes)
<1>1. m \in MappingSet /\ WellFormed(m)
  BY DEF MappingsInv, Validate
<1> HIDE DEF m
<1>2. plan.members = Resolve(m, nodes) /\ plan.single = m.single
  BY DEF PlanOf
<1>3. CASE m.single
  <2>1. m.filter = NoFilter /\ m.nodes \in Seq(Ids) /\ Len(m.nodes) = 1
    BY <1>1, <1>3 DEF WellFormed, MappingSet
  <2>2. \A j, k \in DOMAIN Resolve(m, nodes) : j = 1 /\ k <= j
    BY <2>1 DEF Resolve
  <2> QED
    BY <1>2, <2>2 DEF Used, m
<1>4. CASE ~m.single
  BY <1>2, <1>4 DEF Used, m
<1> QED
  BY <1>3, <1>4

\* What mihomo takes has exactly the wanted listeners.
LEMMA AcceptedIsWanted ==
  ASSUME MappingsInv, Accepted(present, Plans)
  PROVE  Listeners(present, Plans) = Wanted
<1> DEFINE listener(plan) ==
             [port |-> plan.port,
              members |-> [k \in Used(plan) |->
                             NodeNamed(present, ProxyName(present, plan.members[k]))]]
           wanted(i) == [port |-> mappings[i].port,
                         members |-> Resolve(mappings[i], present)]
           on(i) == mappings[i].enabled /\ HasNodes(mappings[i], present)
<1>1. ASSUME NEW i \in DOMAIN mappings
      PROVE  listener(PlanOf(mappings[i], present)) = wanted(i)
  <2> DEFINE plan == PlanOf(mappings[i], present)
             r == Resolve(mappings[i], present)
  <2>1. plan.port = mappings[i].port /\ plan.members = r
    BY DEF PlanOf
  <2>2. Used(plan) = DOMAIN r
    BY AllPlacesUsed
  <2>3. \A k \in DOMAIN r : r[k] \in present
    BY DEF Resolve
  <2>4. \A k \in DOMAIN r : NodeNamed(present, ProxyName(present, r[k])) = r[k]
    BY <2>3, NameLeadsBack
  <2>5. r = [k \in DOMAIN r |-> r[k]]
    BY DEF Resolve
  <2> HIDE DEF plan, r
  <2>6. [k \in Used(plan) |-> NodeNamed(present, ProxyName(present, plan.members[k]))] = r
    BY <2>1, <2>2, <2>4, <2>5
  <2> QED
    BY <2>1, <2>6 DEF plan, r
<1>2. \A i \in DOMAIN mappings : Serving(PlanOf(mappings[i], present)) <=> on(i)
  BY DEF Serving, PlanOf, HasNodes
<1>3. Listeners(present, Plans) = {listener(plan) : plan \in {p \in Plans : Serving(p)}}
  BY DEF Listeners
<1>4. Wanted = {wanted(i) : i \in {k \in DOMAIN mappings : on(k)}}
  BY DEF Wanted
<1> HIDE DEF listener, wanted, on
<1> QED
  BY <1>1, <1>2, <1>3, <1>4 DEF Plans

\* The configuration in the engine's hands, or the one it has installed, was made
\* of the present state unless a reload is requested or owed; that is why what is
\* installed when nothing is pending is what is wanted.
Pending == reload \/ owed > 0

FreshInv ==
  /\ \A c \in held : ~Pending => c = Built
  /\ held = {} /\ ~Pending /\ ~err => Accepted(present, Plans)
                                    /\ served = Listeners(present, Plans)

LEMMA FreshStep == TypeOK /\ FreshInv /\ [Next]_vars => FreshInv'
<1> SUFFICES ASSUME TypeOK, FreshInv, [Next]_vars PROVE FreshInv'
  OBVIOUS
<1>1. owed \in Nat
  BY DEF TypeOK
<1>2. CASE Pending'
  BY <1>2 DEF FreshInv
<1>3. CASE ~Pending'
  <2>1. Snapshot \/ Apply \/ Reject \/ UNCHANGED vars
    <3>1. ASSUME NEW in, NEW old, NEW port, Create(in, port) \/ Update(old, in, port)
          PROVE  Pending'
      BY <3>1 DEF Pending, Create, CreateMapping, Update, UpdateMapping, Store
    <3>2. ASSUME NEW port, NEW enabled, Delete(port) \/ SetEnabled(port, enabled)
          PROVE  Pending'
      BY <1>1, <3>2
      DEF Pending, Delete, DeleteMapping, SetEnabled, SetMappingEnabled
    <3>3. ASSUME NEW nodes, PoolChange(nodes) PROVE Pending'
      BY <1>1, <3>3 DEF Pending, PoolChange
    <3>4. RequestReload => Pending'
      BY DEF Pending, RequestReload, Publish
    <3> QED
      BY <1>3, <3>1, <3>2, <3>3, <3>4 DEF Next
  <2>2. CASE Snapshot
    <3>1. UNCHANGED <<mappings, present>> /\ held' = {Built}
      BY <2>2 DEF Snapshot
    <3>2. Built' = Built
      BY <3>1 DEF Built, Plans
    <3> QED
      BY <3>1, <3>2 DEF FreshInv
  <2>3. CASE Apply
    <3>1. PICK c \in held : c.ok /\ served' = c.listeners /\ held' = {}
      BY <2>3 DEF Apply
    <3>2. UNCHANGED <<mappings, owed, reload, present>>
      BY <2>3 DEF Apply, mappingVars
    <3>3. c = Built
      BY <1>3, <3>2 DEF FreshInv, Pending
    <3>4. Accepted(present, Plans) /\ served' = Listeners(present, Plans)
      BY <3>1, <3>3 DEF Built
    <3>5. Plans' = Plans
      BY <3>2 DEF Plans
    <3> QED
      BY <3>1, <3>2, <3>4, <3>5 DEF FreshInv
  <2>4. CASE Reject
    BY <2>4 DEF Reject, FreshInv
  <2>5. CASE UNCHANGED vars
    <3>1. UNCHANGED <<mappings, owed, reload, present, held, served, err>>
      BY <2>5 DEF vars, mappingVars, engineVars
    <3>2. Built' = Built /\ Plans' = Plans /\ Pending' = Pending
      BY <3>1 DEF Built, Plans, Pending
    <3> QED
      BY <3>1, <3>2 DEF FreshInv
  <2> QED
    BY <2>1, <2>2, <2>3, <2>4, <2>5
<1> QED
  BY <1>2, <1>3

\* When nothing is pending and the last reload succeeded, mihomo has exactly the
\* listeners that mappings and pool ask for, leading to the nodes they name
\* (core/app.go:138-170, engine/engine.go:105-134, engine/generate.go:89-173).
THEOREM ServesWhatIsWanted == Spec => []QuietServes
<1>1. Init => FreshInv
  BY DEF Init, MappingInit, FreshInv, Pending
<1>2. Spec => []FreshInv
  BY <1>1, FreshStep, TypeCorrect, PTL DEF Spec
<1>3. DataInv /\ FreshInv => QuietServes
  <2> SUFFICES ASSUME DataInv, FreshInv, Quiet, ~err PROVE served = Wanted
    BY DEF QuietServes
  <2>1. MappingsInv /\ ~Pending
    BY DEF DataInv, TypeOK, MappingsInv, Quiet, Pending
  <2> QED
    BY <2>1, AcceptedIsWanted DEF FreshInv, Quiet
<1>4. Spec => []DataInv
  BY DataInvInit, DataInvStep, PTL DEF Spec
<1> QED
  BY <1>2, <1>3, <1>4, PTL

\* No two listeners of a set share a port.
Apart(listeners) == \A a, b \in listeners : a.port = b.port => a = b

ApartInv == Apart(served) /\ \A c \in held : Apart(c.listeners)

LEMMA BuiltApart ==
  ASSUME MappingsInv
  PROVE  Apart(Built.listeners)
<1>1. \A p, q \in Plans : p.port = q.port => p = q
  BY DEF MappingsInv, Validate, Plans, PlanOf
<1> QED
  BY <1>1 DEF Built, Listeners, Apart

\* mihomo is never given two listeners on one port (config/validate.go:64-67).
THEOREM PortsNotShared == Spec => []OneListenerPerPort
<1>1. Init => ApartInv
  BY DEF Init, ApartInv, Apart
<1>2. DataInv /\ ApartInv /\ [Next]_vars => ApartInv'
  <2> SUFFICES ASSUME DataInv, ApartInv, [Next]_vars PROVE ApartInv'
    OBVIOUS
  <2>1. CASE Snapshot
    <3>1. MappingsInv
      BY DEF DataInv, TypeOK, MappingsInv
    <3> QED
      BY <2>1, <3>1, BuiltApart DEF Snapshot, ApartInv
  <2>2. CASE Apply
    BY <2>2 DEF Apply, ApartInv
  <2>3. CASE Reject
    BY <2>3 DEF Reject, ApartInv
  <2>4. UNCHANGED engineVars => ApartInv'
    BY DEF engineVars, ApartInv
  <2> QED
    BY <2>1, <2>2, <2>3, <2>4
    DEF Next, vars, Create, Update, Delete, SetEnabled, RequestReload, PoolChange
<1>3. ApartInv => OneListenerPerPort
  BY DEF ApartInv, Apart, OneListenerPerPort
<1>4. Spec => []DataInv
  BY DataInvInit, DataInvStep, PTL DEF Spec
<1> QED
  BY <1>1, <1>2, <1>3, <1>4, PTL DEF Spec

-----------------------------------------------------------------------------
(* Names *)

\* Display names the numbering of build() cannot confuse: none is another one with
\* a suffix, and none is, with or without a suffix, a name of mihomo or of a group.
NamesApart ==
  /\ \A i, j \in Ids, n \in Nat : RawName[i] # Suffix(RawName[j], n)
  /\ \A i \in Ids, n \in Nat, port \in PortRange :
       \A name \in {RawName[i], Suffix(RawName[i], n)} :
         name \notin Reserved /\ name # GroupName(port)

\* Of two nodes with one display name the later has more before it.
LEMMA BeforeGrows ==
  ASSUME NEW nodes \in SUBSET Ids, NEW i \in nodes, NEW j \in nodes,
         i < j, RawName[i] = RawName[j]
  PROVE  /\ Cardinality(Before(nodes, i)) \in Nat
         /\ Cardinality(Before(nodes, j)) \in Nat
         /\ Cardinality(Before(nodes, i)) < Cardinality(Before(nodes, j))
<1> DEFINE bi == Before(nodes, i)
           bj == Before(nodes, j)
<1>1. nodes \subseteq Nat /\ IsFiniteSet(nodes)
  BY NameAssumption, FS_Subset
<1>2. IsFiniteSet(bi) /\ IsFiniteSet(bj)
  BY <1>1, FS_Subset DEF Before
<1>3. i \notin bi /\ bi \cup {i} \subseteq bj
  <2>1. i \in Nat /\ j \in Nat /\ ~(i < i)
    BY <1>1
  <2>2. i \notin bi /\ i \in bj
    BY <2>1 DEF Before
  <2>3. ASSUME NEW x \in bi PROVE x \in bj
    <3>1. x \in nodes /\ x < i /\ RawName[x] = RawName[i]
      BY DEF Before
    <3>2. x < j
      BY <1>1, <2>1, <3>1
    <3> QED
      BY <3>1, <3>2 DEF Before
  <2> QED
    BY <2>2, <2>3
<1> HIDE DEF bi, bj
<1>4. Cardinality(bi) \in Nat /\ Cardinality(bj) \in Nat
  BY <1>2, FS_CardinalityType
<1>5. Cardinality(bi \cup {i}) = Cardinality(bi) + 1
  BY <1>2, <1>3, FS_AddElement
<1>6. Cardinality(bi \cup {i}) <= Cardinality(bj)
  BY <1>2, <1>3, FS_Subset
<1> QED
  BY <1>4, <1>5, <1>6 DEF bi, bj

\* A node's outbound name is its display name or that with a suffix.
LEMMA ProxyNameShape ==
  ASSUME NEW nodes \in SUBSET Ids, NEW i \in nodes
  PROVE  \/ ProxyName(nodes, i) = RawName[i]
         \/ \E n \in Nat : ProxyName(nodes, i) = Suffix(RawName[i], n)
<1>1. IsFiniteSet(Before(nodes, i))
  BY NameAssumption, FS_Subset DEF Before
<1>2. Cardinality(Before(nodes, i)) + 1 \in Nat
  BY <1>1, FS_CardinalityType
<1> QED
  BY <1>2 DEF ProxyName

\* A name and its suffixed forms are all different.
LEMMA SuffixDiffers ==
  ASSUME NEW i \in Ids, NEW j \in Ids, NEW n \in Nat, NEW k \in Nat
  PROVE  /\ Suffix(RawName[i], n) # RawName[i]
         /\ Suffix(RawName[i], n) = Suffix(RawName[j], k)
              => RawName[i] = RawName[j] /\ n = k
<1> DEFINE S == NameParts \cup Nat
<1>1. RawName[i] \in Seq(NameParts) /\ RawName[j] \in Seq(NameParts)
  BY NameAssumption
<1>2. RawName[i] \in Seq(S) /\ RawName[j] \in Seq(S) /\ n \in S /\ k \in S
  BY <1>1
<1> HIDE DEF S
<1>3. Len(Suffix(RawName[i], n)) = Len(RawName[i]) + 1 /\ Len(RawName[i]) \in Nat
  BY <1>2, AppendProperties, LenProperties DEF Suffix
<1>4. Suffix(RawName[i], n) # RawName[i]
  BY <1>3
<1>5. Suffix(RawName[i], n) = Suffix(RawName[j], k) => RawName[i] = RawName[j] /\ n = k
  <2> DEFINE s == RawName[i]
             t == RawName[j]
  <2>1. s \in Seq(S) /\ t \in Seq(S)
    BY <1>2
  <2> HIDE DEF s, t
  <2>2. Append(s, n) = Append(t, k) <=> s = t /\ n = k
    BY <1>2, <2>1, AppendInjective
  <2> QED
    BY <2>2 DEF Suffix, s, t
<1> QED
  BY <1>4, <1>5

\* Earlier and later node never get the same name.
LEMMA NamesDiffer ==
  ASSUME NamesApart, NEW nodes \in SUBSET Ids, NEW i \in nodes, NEW j \in nodes, i < j
  PROVE  ProxyName(nodes, i) # ProxyName(nodes, j)
<1>1. CASE RawName[i] = RawName[j]
  <2> DEFINE ci == Cardinality(Before(nodes, i))
             cj == Cardinality(Before(nodes, j))
  <2>1. ci \in Nat /\ cj \in Nat /\ ci < cj
    BY <1>1, BeforeGrows
  <2>2. ProxyName(nodes, j) = Suffix(RawName[j], cj + 1)
    BY <2>1 DEF ProxyName
  <2>3. ProxyName(nodes, i) = IF ci = 0 THEN RawName[i] ELSE Suffix(RawName[i], ci + 1)
    BY DEF ProxyName
  <2> HIDE DEF ci, cj
  <2>4. ci + 1 \in Nat /\ cj + 1 \in Nat /\ ci + 1 # cj + 1
    BY <2>1
  <2>5. Suffix(RawName[j], cj + 1) # RawName[i]
    BY <2>4, SuffixDiffers, <1>1
  <2>6. Suffix(RawName[j], cj + 1) # Suffix(RawName[i], ci + 1)
    BY <2>4, SuffixDiffers
  <2> QED
    BY <2>2, <2>3, <2>5, <2>6
<1>2. CASE RawName[i] # RawName[j]
  <2>1. \A n, k \in Nat : /\ RawName[i] # Suffix(RawName[j], n)
                         /\ RawName[j] # Suffix(RawName[i], n)
                         /\ Suffix(RawName[i], n) # Suffix(RawName[j], k)
    BY <1>2, SuffixDiffers DEF NamesApart
  <2> QED
    BY <1>2, <2>1, ProxyNameShape
<1> QED
  BY <1>1, <1>2

\* Every configuration over such names is one mihomo takes.
LEMMA NamesAccepted ==
  ASSUME NamesApart, DataInv
  PROVE  Built.ok
<1>1. present \in SUBSET Ids /\ MappingsInv
  BY DEF DataInv, TypeOK, MappingsInv
<1>2. ASSUME NEW i \in present, NEW j \in present,
             ProxyName(present, i) = ProxyName(present, j)
      PROVE  i = j
  <2>1. i \in Nat /\ j \in Nat
    BY <1>1, NameAssumption
  <2>2. i < j \/ j < i \/ i = j
    BY <2>1
  <2> QED
    BY <1>1, <1>2, <2>2, NamesDiffer
<1>3. \A plan \in Plans : plan.port \in PortRange
  BY <1>1 DEF MappingsInv, Validate, Plans, PlanOf
<1>4. ASSUME NEW i \in present
      PROVE  ProxyName(present, i) \notin Reserved \cup GroupNames(Plans)
  <2>1. \A port \in PortRange : /\ ProxyName(present, i) \notin Reserved
                              /\ ProxyName(present, i) # GroupName(port)
    BY <1>1, ProxyNameShape DEF NamesApart
  <2>2. PortRange # {}
    BY PortAssumption DEF PortRange
  <2> QED
    BY <1>3, <2>1, <2>2 DEF GroupNames
<1> QED
  BY <1>2, <1>4 DEF Built, Accepted

\* When no display name looks like a numbered one, a reload never fails, however
\* many nodes share a name (engine/generate.go:79-80, 94-107).
THEOREM ReloadsSucceed ==
  ASSUME NamesApart
  PROVE  Spec => []NoReloadFails
<1> DEFINE OkInv == ~err /\ \A c \in held : c.ok
<1>1. Init => OkInv
  BY DEF Init
<1>2. DataInv /\ OkInv /\ [Next]_vars => OkInv'
  <2> SUFFICES ASSUME DataInv, OkInv, [Next]_vars PROVE OkInv'
    OBVIOUS
  <2>1. CASE Snapshot
    BY <2>1, NamesAccepted DEF Snapshot
  <2>2. CASE Apply
    BY <2>2 DEF Apply
  <2>3. CASE Reject
    BY <2>3 DEF Reject
  <2>4. UNCHANGED engineVars => OkInv'
    BY DEF engineVars
  <2> QED
    BY <2>1, <2>2, <2>3, <2>4
    DEF Next, vars, Create, Update, Delete, SetEnabled, RequestReload, PoolChange
<1>3. Spec => []DataInv
  BY DataInvInit, DataInvStep, PTL DEF Spec
<1>4. OkInv => NoReloadFails
  BY DEF NoReloadFails
<1> QED
  BY <1>1, <1>2, <1>3, <1>4, PTL DEF Spec
=============================================================================
