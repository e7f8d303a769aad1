---------------------------- MODULE PortMapping ----------------------------
(***************************************************************************)
(* Port mappings (internal/core/mappings.go, internal/mapping/mapping.go,  *)
(* internal/config/validate.go): handlers create, replace, delete, enable  *)
(* and disable entries of cfg.Mappings under App.mu.  Create and update    *)
(* request the reload before they release the lock, delete and enable      *)
(* after, so a reload may come in between.                                 *)
(*                                                                         *)
(* A mapping is [port, single, nodes, filter, sound, enabled]: nodes is    *)
(* the ordered list of fingerprints, filter a name pattern or NoFilter,    *)
(* and sound stands for the checks on fields nothing else depends on (a    *)
(* known strategy, a pattern that compiles, the health interval, both      *)
(* inbound credentials or none).  An input has the same fields, and port 0 *)
(* when it leaves the port to the program.                                 *)
(***************************************************************************)
EXTENDS Naturals, SequencesExt

CONSTANTS
  PortLo, PortHi,  \* cfg.PortRange
  ListenPort,      \* the port of cfg.Listen
  Inputs,          \* the mappings that are asked for
  NoFilter,
  MaxOwed          \* bound: handlers between unlock and persistAndReload

ASSUME PortAssumption ==
  /\ PortLo \in Nat \ {0} /\ PortHi \in Nat /\ PortLo <= PortHi
  /\ ListenPort \in Nat \ (PortLo .. PortHi)
  /\ MaxOwed \in Nat

VARIABLES
  mappings,  \* cfg.Mappings
  owed,      \* handlers that have changed something and not yet asked for a reload
  reload     \* a reload has been requested and has not yet read the state

mappingVars == <<mappings, owed, reload>>

PortRange == PortLo .. PortHi

\* The ports a mapping may be asked for, in the range or not, or be given.
Ports == PortRange \cup {in.port : in \in Inputs}

UsedPorts(ms) == {ms[i].port : i \in DOMAIN ms}

\* mappingIndex: the entry on a port, one of them if there were several.
IndexOf(port) == CHOOSE i \in DOMAIN mappings : mappings[i].port = port

-----------------------------------------------------------------------------
(* Validation *)

\* The part of validateMapping that looks at one mapping.
WellFormed(m) ==
  /\ m.sound
  /\ (m.nodes # <<>>) # (m.filter # NoFilter)
  /\ m.single => m.filter = NoFilter /\ Len(m.nodes) = 1

\* Config.Validate, for the mappings.
Validate(ms) ==
  /\ \A i \in DOMAIN ms : /\ ms[i].port \in PortRange \ {ListenPort}
                          /\ WellFormed(ms[i])
  /\ \A i, j \in DOMAIN ms : ms[i].port = ms[j].port => i = j

-----------------------------------------------------------------------------
(* Handlers *)

\* The ports AllocatePort may return; usedPorts leaves out the mapping's own.
FreePorts(exclude) == PortRange \ (UsedPorts(mappings) \ {exclude})

\* The port of a new or replaced mapping: the smallest free one when the input
\* leaves it open, else the one asked for unless another mapping has it.
Allowed(in, exclude, port) ==
  IF in.port = 0
    THEN port \in FreePorts(exclude) /\ \A q \in FreePorts(exclude) : port <= q
    ELSE port = in.port /\ (port = exclude \/ port \notin UsedPorts(mappings))

Build(in, port) == [in EXCEPT !.port = port]

\* Mutation: the candidate is stored without validateTrial.
StoreUnvalidated(next) ==
  /\ mappings' = next
  /\ reload' = TRUE
  /\ UNCHANGED owed

\* validateTrial has accepted next; the handler stores it and, still holding
\* App.mu, calls persistAndReload.
Store(next) ==
  /\ Validate(next)
  /\ mappings' = next
  /\ reload' = TRUE
  /\ UNCHANGED owed

CreateMapping(in, port) ==
  /\ Allowed(in, 0, port)
  /\ Store(Append(mappings, Build(in, port)))

UpdateMapping(old, in, port) ==
  /\ old \in UsedPorts(mappings)
  /\ Allowed(in, old, port)
  /\ Store([mappings EXCEPT ![IndexOf(old)] = Build(in, port)])

\* Mutation: the entry after it is cut out.
DeleteNext(port) ==
  /\ port \in UsedPorts(mappings)
  /\ owed < MaxOwed
  /\ mappings' = SubSeq(mappings, 1, IndexOf(port))
                   \o SubSeq(mappings, IndexOf(port) + 2, Len(mappings))
  /\ owed' = owed + 1
  /\ UNCHANGED reload

\* The entry is cut out and the lock released before persistAndReload.
DeleteMapping(port) ==
  /\ port \in UsedPorts(mappings)
  /\ owed < MaxOwed
  /\ mappings' = RemoveAt(mappings, IndexOf(port))
  /\ owed' = owed + 1
  /\ UNCHANGED reload

SetMappingEnabled(port, enabled) ==
  /\ port \in UsedPorts(mappings)
  /\ owed < MaxOwed
  /\ mappings' = [mappings EXCEPT ![IndexOf(port)].enabled = enabled]
  /\ owed' = owed + 1
  /\ UNCHANGED reload

\* Mutation: the config write is scheduled and the reload forgotten.
PublishNoTrigger ==
  /\ owed > 0
  /\ owed' = owed - 1
  /\ UNCHANGED <<mappings, reload>>

\* persistAndReload of a handler that has released App.mu.
Publish ==
  /\ owed > 0
  /\ owed' = owed - 1
  /\ reload' = TRUE
  /\ UNCHANGED mappings

-----------------------------------------------------------------------------
MappingInit ==
  /\ mappings = <<>>
  /\ owed = 0
  /\ reload = TRUE   \* App.Start applies whatever it has loaded

-----------------------------------------------------------------------------
(* Properties *)

\* What memory holds passes Config.Validate at every moment, also between a
\* handler's unlock and its config write: what the store copies will load again
\* (config/validate.go:13-15, core/mappings.go:198-202).
ConfigLoads == Validate(mappings)

OthersKept(port) ==
  \A i \in DOMAIN mappings :
    mappings[i].port # port => \E k \in DOMAIN mappings' : mappings'[k] = mappings[i]

\* A handler touches no mapping but the one on its port, which an update finds
\* under its old port: every other keeps all its fields (core/mappings.go:50-118).
OthersUntouched ==
  [][\A port \in PortRange :
       \/ DeleteMapping(port)
       \/ \E enabled \in BOOLEAN : SetMappingEnabled(port, enabled)
       \/ \E in \in Inputs :
            CreateMapping(in, port) \/ \E q \in Ports : UpdateMapping(port, in, q)
       => OthersKept(port)]_mappings
=============================================================================
