----------------------------- MODULE DataPlane -----------------------------
(***************************************************************************)
(* From mappings and nodes to listeners: the handlers of PortMapping, the  *)
(* node pool as the set of its fingerprints, and the engine, which reads   *)
(* both (App.engineSnapshot), generates a configuration (EngineConfig) and *)
(* hands it to mihomo or, when mihomo refuses it, keeps the last one       *)
(* (Engine.applyNow).                                                      *)
(*                                                                         *)
(* Taking the snapshot and installing the result are two actions: handlers *)
(* and refreshes run in between.  How triggers are debounced is the        *)
(* subject of Engine; here a requested reload may start at any moment.     *)
(***************************************************************************)
EXTENDS PortMapping, EngineConfig

CONSTANTS
  Filters,   \* node_filter patterns
  Matches    \* the nodes whose name a pattern matches, by name, then fingerprint

ASSUME DataPlaneAssumption ==
  /\ NoFilter \notin Filters
  /\ Matches \in [Filters -> Seq(Ids)]
  /\ Inputs \subseteq [port : Nat, single : BOOLEAN, nodes : Seq(Ids),
                      filter : Filters \cup {NoFilter}, sound : BOOLEAN,
                      enabled : BOOLEAN]

VARIABLES
  present,  \* the fingerprints in the pool
  held,     \* the configuration applyNow is working on: at most one
  served,   \* the listeners of the configuration mihomo runs
  err,      \* lastErr is set
  asked,    \* history: flips with every request, also one that changes nothing else
  fallen    \* history: ports that lost their listener to auto-disable, until a person acts

engineVars == <<held, served, err>>
vars == <<mappingVars, present, engineVars, asked, fallen>>

-----------------------------------------------------------------------------
(* Resolving a mapping *)

\* mapping.Resolve: the listed or matching nodes that are present, in order.
Resolve(m, nodes) ==
  LET list == IF m.filter = NoFilter THEN m.nodes ELSE Matches[m.filter]
  IN  [k \in {i \in DOMAIN list : list[i] \in nodes} |-> list[k]]

HasNodes(m, nodes) == DOMAIN Resolve(m, nodes) # {}

\* One entry of engineSnapshot; a mapping left without nodes is auto-disabled.
PlanOf(m, nodes) ==
  [port |-> m.port, single |-> m.single, members |-> Resolve(m, nodes),
   enabled |-> m.enabled /\ HasNodes(m, nodes)]

Plans == {PlanOf(mappings[i], present) : i \in DOMAIN mappings}

AutoDisabled ==
  {mappings[i].port : i \in {k \in DOMAIN mappings :
                               /\ mappings[k].enabled
                               /\ ~HasNodes(mappings[k], present)}}

-----------------------------------------------------------------------------
(* Handlers and the pool *)

Create(in, port) ==
  /\ CreateMapping(in, port)
  /\ asked' = ~asked
  /\ fallen' = fallen \ {port}
  /\ UNCHANGED <<present, engineVars>>

Update(old, in, port) ==
  /\ UpdateMapping(old, in, port)
  /\ asked' = ~asked
  /\ fallen' = fallen \ {old, port}
  /\ UNCHANGED <<present, engineVars>>

Delete(port) ==
  /\ DeleteMapping(port)
  /\ fallen' = fallen \ {port}
  /\ UNCHANGED <<present, engineVars, asked>>

SetEnabled(port, enabled) ==
  /\ SetMappingEnabled(port, enabled)
  /\ fallen' = fallen \ {port}
  /\ UNCHANGED <<present, engineVars, asked>>

RequestReload ==
  /\ Publish
  /\ asked' = ~asked
  /\ UNCHANGED <<present, engineVars, fallen>>

\* A refresh, or a manual node added or deleted, has changed the pool; its
\* persistAndReload follows.
PoolChange(nodes) ==
  /\ nodes # present
  /\ owed < MaxOwed
  /\ present' = nodes
  /\ owed' = owed + 1
  /\ UNCHANGED <<mappings, reload, engineVars, asked, fallen>>

-----------------------------------------------------------------------------
(* The engine *)

\* What build() makes of the state, and whether mihomo will take it.
Built == [ok |-> Accepted(present, Plans), listeners |-> Listeners(present, Plans)]

\* applyNow reads the state and generates the configuration.
Snapshot ==
  /\ reload /\ held = {}
  /\ reload' = FALSE
  /\ held' = {Built}
  /\ UNCHANGED <<mappings, owed, present, served, err, asked, fallen>>

\* Mutation: the listeners of the last configuration stay open beside the new.
ApplyAdds ==
  \E c \in held :
    /\ c.ok
    /\ served' = served \cup c.listeners
    /\ err' = FALSE
    /\ held' = {}
    /\ UNCHANGED <<mappingVars, present, asked, fallen>>

\* mihomo takes it: ApplyConfig, and the error is cleared.
Apply ==
  \E c \in held :
    /\ c.ok
    /\ served' = c.listeners
    /\ err' = FALSE
    /\ held' = {}
    /\ fallen' = fallen \cup (AutoDisabled \cap
                               ({l.port : l \in served} \ {l.port : l \in c.listeners}))
    /\ UNCHANGED <<mappingVars, present, asked>>

\* mihomo refuses it: recordErr, and the last good configuration serves on.
Reject ==
  \E c \in held :
    /\ ~c.ok
    /\ err' = TRUE
    /\ held' = {}
    /\ UNCHANGED <<mappingVars, present, served, asked, fallen>>

-----------------------------------------------------------------------------
Init ==
  /\ MappingInit
  /\ present = {}
  /\ held = {} /\ served = {} /\ err = FALSE
  /\ asked = FALSE /\ fallen = {}

Next ==
  \/ \E in \in Inputs, port \in Ports : Create(in, port)
  \/ \E old \in PortRange, in \in Inputs, port \in Ports : Update(old, in, port)
  \/ \E port \in PortRange : Delete(port)
  \/ \E port \in PortRange, enabled \in BOOLEAN : SetEnabled(port, enabled)
  \/ RequestReload
  \/ \E nodes \in SUBSET Ids : PoolChange(nodes)
  \/ Snapshot \/ Apply \/ Reject

Spec == Init /\ [][Next]_vars

RequestsKeepComing == []<><<TRUE>>_asked

\* Handlers finish and the engine's goroutine goes on.  A requested reload starts
\* when its debounce runs out; requests that keep coming may put it off for ever.
FairSpec ==
  /\ Spec
  /\ WF_vars(RequestReload)
  /\ WF_vars(Apply \/ Reject)
  /\ WF_vars(Snapshot) \/ RequestsKeepComing

-----------------------------------------------------------------------------
(* Properties *)

MappingSet ==
  [port : PortRange, single : BOOLEAN, nodes : Seq(Ids),
   filter : Filters \cup {NoFilter}, sound : BOOLEAN, enabled : BOOLEAN]

TypeOK ==
  /\ mappings \in Seq(MappingSet)
  /\ owed \in 0 .. MaxOwed
  /\ reload \in BOOLEAN
  /\ present \in SUBSET Ids
  /\ \A c \in held : c.ok \in BOOLEAN
  /\ \A l \in served : l.port \in PortRange
  /\ err \in BOOLEAN
  /\ asked \in BOOLEAN
  /\ fallen \in SUBSET PortRange

\* What the configuration and the pool ask for, by fingerprints.
Wanted ==
  {[port |-> mappings[i].port, members |-> Resolve(mappings[i], present)] :
     i \in {k \in DOMAIN mappings : /\ mappings[k].enabled
                                    /\ HasNodes(mappings[k], present)}}

\* No reload is requested, about to be requested, or under way.
Quiet == ~reload /\ owed = 0 /\ held = {}

\* When nothing is pending and the last reload succeeded, mihomo listens on
\* exactly the enabled mappings that have a node left and each leads to the nodes
\* the mapping lists, whatever their names (core/app.go:138-161, engine/generate.go:77-81).
QuietServes == Quiet /\ ~err => served = Wanted

\* No two listeners ever share a port, whatever moved between ports in between.
OneListenerPerPort ==
  \A a, b \in served : a.port = b.port => a = b

\* Names are disambiguated, so mihomo never refuses a configuration
\* (engine/generate.go:79-80, 94).
NoReloadFails == ~err

\* openspec/specs/port-mapping/spec.md:87: a node that comes back does not start
\* an auto-disabled mapping again; a person does.
AutoDisabledStays ==
  \A l \in served : l.port \notin fallen

Enabled == {mappings[i].port : i \in {k \in DOMAIN mappings : mappings[k].enabled}}

\* Each of the requests that keep coming starts the debounce again, and the reload
\* never runs any more (engine/engine.go:84-90).
Starved == RequestsKeepComing /\ <>[]reload

\* Once mappings and pool stay as they are, the listeners are the wanted ones or
\* the status shows an error, unless the reload is starved.
CatchesUp ==
  \/ Starved
  \/ []<><<TRUE>>_<<mappings, present>>
  \/ <>[](served = Wanted \/ err)

\* openspec/specs/port-mapping/spec.md:76: disabling or deleting a mapping closes
\* its port, also when other changes keep coming, as long as they leave the reload
\* the 500 ms it waits for every now and then; or the status shows an error.
DisabledCloses ==
  \/ Starved
  \/ \A port \in PortRange :
       (port \notin Enabled)
         ~> (port \in Enabled \/ err \/ \A l \in served : l.port # port)
=============================================================================
