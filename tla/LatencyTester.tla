--------------------------- MODULE LatencyTester ---------------------------
(***************************************************************************)
(* Latency tests (internal/pool/latency.go, core/nodes.go): single tests   *)
(* asked for by handlers and sweeps over many nodes, with at most one      *)
(* measurement of a node under way.  A test that finds one waits for it    *)
(* on its channel and then reads the result from the pool, where nodes     *)
(* come and go meanwhile and take their results with them.                 *)
(*                                                                         *)
(* A test is <<who, node>>.  A channel is the test that made it: it is     *)
(* closed in the critical section that removes it from the table.          *)
(***************************************************************************)
EXTENDS FiniteSetsExt

CONSTANTS
  Fps,      \* fingerprints
  Sweeps,   \* TestAll or TestSet goroutines
  Handlers,  \* handlers of a single test
  NoTest,   \* no entry in the table, no channel
  Limit     \* TestConcurrency: tests of one sweep at a time

ASSUME TesterAssumption ==
  /\ Limit \in Nat \ {0}
  /\ Sweeps \cap Handlers = {}
  /\ NoTest \notin (Sweeps \cup Handlers) \X Fps

Tests == (Sweeps \cup Handlers) \X Fps

VARIABLES
  present,   \* the nodes of the pool
  latency,   \* the nodes that have a result
  inflight,  \* the test whose channel the table holds for a node
  stage,     \* where each test is
  chan,      \* the channel it waits on
  todo,      \* the nodes a sweep has yet to start
  outdated   \* history: tests for which the node's result is an earlier test's

testerVars == <<present, latency, inflight, stage, chan, todo, outdated>>

Node(k) == k[2]

TestsOf(s) == {k \in Tests : k[1] = s}

Running(s) == {k \in TestsOf(s) : stage[k] # "idle"}

-----------------------------------------------------------------------------
(* The pool *)

\* A rebuild of the pool prunes the results of nodes that are gone.
PoolChange(nodes) ==
  /\ nodes # present
  /\ present' = nodes
  /\ latency' = latency \cap nodes
  /\ outdated' = {k \in outdated : Node(k) \in nodes}
  /\ UNCHANGED <<inflight, stage, chan, todo>>

-----------------------------------------------------------------------------
(* Sweeps and handlers *)

\* TestAllNodes: every node, or those of one source.
StartSweep(s, nodes) ==
  /\ todo[s] = {} /\ Running(s) = {}
  /\ nodes # {} /\ nodes \subseteq present
  /\ todo' = [todo EXCEPT ![s] = nodes]
  /\ UNCHANGED <<present, latency, inflight, stage, chan, outdated>>

\* TestSet takes a slot of its semaphore and starts a goroutine; every sweep has a
\* semaphore of its own.
Spawn(s, fp) ==
  /\ fp \in todo[s]
  /\ Cardinality(Running(s)) < Limit
  /\ todo' = [todo EXCEPT ![s] = @ \ {fp}]
  /\ stage' = [stage EXCEPT ![<<s, fp>>] = "called"]
  /\ UNCHANGED <<present, latency, inflight, chan, outdated>>

\* TestNode: the node exists.
Call(c, fp) ==
  /\ fp \in present
  /\ stage[<<c, fp>>] = "idle"
  /\ stage' = [stage EXCEPT ![<<c, fp>>] = "called"]
  /\ UNCHANGED <<present, latency, inflight, chan, todo, outdated>>

-----------------------------------------------------------------------------
(* Test *)

\* Mutation: the table is written without a look at what it holds.
OwnUnchecked(k) ==
  /\ stage[k] = "called"
  /\ inflight' = [inflight EXCEPT ![Node(k)] = k]
  /\ stage' = [stage EXCEPT ![k] = "measuring"]
  /\ outdated' = outdated \cup {j \in {k} : Node(k) \in latency}
  /\ UNCHANGED <<present, latency, chan, todo>>

\* No measurement of the node is under way: enter one.
Own(k) ==
  /\ stage[k] = "called"
  /\ inflight[Node(k)] = NoTest
  /\ inflight' = [inflight EXCEPT ![Node(k)] = k]
  /\ stage' = [stage EXCEPT ![k] = "measuring"]
  /\ outdated' = outdated \cup {j \in {k} : Node(k) \in latency}
  /\ UNCHANGED <<present, latency, chan, todo>>

\* One is under way: wait for its channel.  A result it has stored already is
\* not an earlier test's.
Join(k) ==
  /\ stage[k] = "called"
  /\ inflight[Node(k)] # NoTest
  /\ chan' = [chan EXCEPT ![k] = inflight[Node(k)]]
  /\ stage' = [stage EXCEPT ![k] = "waiting"]
  /\ outdated' = outdated \cup {j \in {k} : /\ Node(k) \in latency
                                            /\ stage[inflight[Node(k)]] = "measuring"}
  /\ UNCHANGED <<present, latency, inflight, todo>>

\* Mutation: a failure is returned and not stored.
MeasureUnrecorded(k) ==
  /\ stage[k] = "measuring"
  /\ stage' = [stage EXCEPT ![k] = "measured"]
  /\ \/ UNCHANGED <<latency, outdated>>
     \/ /\ latency' = latency \cup ({Node(k)} \cap present)
        /\ outdated' = {j \in outdated : Node(j) # Node(k) \/ Node(k) \notin present}
  /\ UNCHANGED <<present, inflight, chan, todo>>

\* The measurement ends, within its 5 s, and SetLatency stores the result unless
\* the node has left the pool.
Measure(k) ==
  /\ stage[k] = "measuring"
  /\ stage' = [stage EXCEPT ![k] = "measured"]
  /\ latency' = latency \cup ({Node(k)} \cap present)
  /\ outdated' = {j \in outdated : Node(j) # Node(k) \/ Node(k) \notin present}
  /\ UNCHANGED <<present, inflight, chan, todo>>

\* Mutations: the channel is not closed; the entry stays in the table.
FinishNoClose(k) ==
  /\ stage[k] = "measured"
  /\ inflight' = [inflight EXCEPT ![Node(k)] = NoTest]
  /\ stage' = [stage EXCEPT ![k] = "idle"]
  /\ UNCHANGED <<present, latency, chan, todo, outdated>>

FinishKeepsEntry(k) ==
  /\ stage[k] = "measured"
  /\ stage' = [j \in Tests |-> IF j = k THEN "idle"
                               ELSE IF chan[j] = k THEN "reading" ELSE stage[j]]
  /\ chan' = [j \in Tests |-> IF chan[j] = k THEN NoTest ELSE chan[j]]
  /\ UNCHANGED <<present, latency, inflight, todo, outdated>>

\* The entry is removed and the channel closed; the test returns its result.
Finish(k) ==
  /\ stage[k] = "measured"
  /\ inflight' = [inflight EXCEPT ![Node(k)] = NoTest]
  /\ stage' = [j \in Tests |-> IF j = k THEN "idle"
                               ELSE IF chan[j] = k THEN "reading" ELSE stage[j]]
  /\ chan' = [j \in Tests |-> IF chan[j] = k THEN NoTest ELSE chan[j]]
  /\ outdated' = outdated \ {k}
  /\ UNCHANGED <<present, latency, todo>>

\* A test that waited reads the pool and returns.
Read(k) ==
  /\ stage[k] = "reading"
  /\ stage' = [stage EXCEPT ![k] = "idle"]
  /\ outdated' = outdated \ {k}
  /\ UNCHANGED <<present, latency, inflight, chan, todo>>

-----------------------------------------------------------------------------
TesterInit ==
  /\ present = Fps /\ latency = {}
  /\ inflight = [fp \in Fps |-> NoTest]
  /\ stage = [k \in Tests |-> "idle"]
  /\ chan = [k \in Tests |-> NoTest]
  /\ todo = [s \in Sweeps |-> {}]
  /\ outdated = {}

Enter(k) == Own(k) \/ Join(k)

TesterNext ==
  \/ \E nodes \in SUBSET Fps : PoolChange(nodes)
  \/ \E s \in Sweeps, nodes \in SUBSET Fps : StartSweep(s, nodes)
  \/ \E s \in Sweeps, fp \in Fps : Spawn(s, fp)
  \/ \E c \in Handlers, fp \in Fps : Call(c, fp)
  \/ \E k \in Tests : Enter(k) \/ Measure(k) \/ Finish(k) \/ Read(k)

TesterSpec == TesterInit /\ [][TesterNext]_testerVars

\* Goroutines go on, and a measurement ends within its timeout.
TesterFairness ==
  /\ \A s \in Sweeps : WF_testerVars(\E fp \in Fps : Spawn(s, fp))
  /\ \A k \in Tests : WF_testerVars(Enter(k) \/ Measure(k) \/ Finish(k) \/ Read(k))

-----------------------------------------------------------------------------
(* Properties *)

TesterTypeOK ==
  /\ present \in SUBSET Fps
  /\ latency \in SUBSET present
  /\ inflight \in [Fps -> Tests \cup {NoTest}]
  /\ stage \in [Tests -> {"idle", "called", "measuring", "waiting", "measured", "reading"}]
  /\ chan \in [Tests -> Tests \cup {NoTest}]
  /\ todo \in [Sweeps -> SUBSET Fps]
  /\ outdated \in SUBSET Tests

\* A node is measured by the one test the table names for it, and an entry
\* stays in the table no longer than that test runs (latency.go:21-22, 39-57): an
\* entry left behind would make every later test of the node wait for ever.
TableMatches ==
  \A k \in Tests : stage[k] \in {"measuring", "measured"} <=> inflight[Node(k)] = k

\* Whoever waits, waits for a test of the same node that has yet to close its
\* channel (latency.go:42, 52-57).
WaitersHaveOwner ==
  \A k \in Tests :
    stage[k] = "waiting" => chan[k] # NoTest /\ inflight[Node(k)] = chan[k]

\* A test that waited never returns the result of a test that had ended when it
\* was called, although it reads the pool after the channel is closed and nodes come
\* and go meanwhile (latency.go:36-46, pool.go:99-105, 170-176).
NoOldResult == \A k \in Tests : stage[k] = "reading" => k \notin outdated

\* Every sweep comes to its end, although a test may hold one of its slots
\* while it waits for a test of another sweep (latency.go:77-90).
SweepsEnd ==
  \A s \in Sweeps :
    (todo[s] # {} \/ Running(s) # {}) ~> (todo[s] = {} /\ Running(s) = {})
=============================================================================
